---- MODULE Spec2Model ----
(***************************************************************************)
(* A model of the chess position type (Board), its builder, make_move,     *)
(* null_move, the legal move generator and the 16-bit move codec.          *)
(*                                                                         *)
(* A BitBoard is modelled as the set of the squares whose bit is set, so   *)
(* &, |, ^ are intersection, union and symmetric difference.  A Zobrist    *)
(* hash is modelled as the set of the keys XOR-ed an odd number of times   *)
(* (the keys are opaque 64-bit values of a generated table).               *)
(***************************************************************************)
EXTENDS Integers, FiniteSets, Sequences, TLC

VARIABLES
    ub,        \* what an out-of-range get_unchecked does in this build
    board,     \* the Board value the caller holds
    held,      \* TRUE when the caller holds a Board
    origin,    \* how the held Board was obtained: "new", "builder", "default"
    op,        \* the last call made
    ret,       \* what the last call returned
    touched,   \* the pieces whose table entries the last call indexed
    prev,      \* the Board the last call was made on
    arg,       \* the argument of the last call
    ply,       \* number of make_move / null_move calls made so far
    nset,      \* number of set_piece calls made so far
    mv,        \* codec: the move given to encode
    coded,     \* codec: encode's result
    decoded,   \* codec: decode's result
    text,      \* parser: the string given to ChessMove::from_str
    parsed,    \* parser: the move from_str returned
    iter,      \* iterator: the BitBoard being iterated (`self` of next)
    items,     \* iterator: the squares next() has yielded so far
    out        \* the groups or the hash keys the last query returned

vars == <<ub, board, held, origin, op, ret, touched, prev, arg, ply, nset, mv, coded, decoded,
          text, parsed, iter, items, out>>

(***************************************************************************)
(* Bounds of the model.                                                    *)
(***************************************************************************)
MaxPly == 2
MaxSet == 3
MaxStr == 6

(***************************************************************************)
(* Geometry: squares, ranks, files, colours.                               *)
(***************************************************************************)
NUM_SQUARES == 64
NUM_FILES == 8
NUM_RANKS == 8
NUM_COLORS == 2
NUM_PIECES == 6
NUM_CASTLE_RIGHTS == 4

Squares == 0 .. (NUM_SQUARES - 1)
EMPTY == {}

White == "White"
Black == "Black"
Colors == {White, Black}

Not(c) == IF c = White THEN Black ELSE White
ColorIndex(c) == IF c = White THEN 0 ELSE 1

(* Square::new: a square is an integer 0..63 *)
SquareNew(i) == i % NUM_SQUARES
get_rank(sq) == sq \div NUM_FILES
get_file(sq) == sq % NUM_FILES
make_square(rank, file) == rank * NUM_FILES + file

(* Rank::up / Rank::down and File::left / File::right wrap *)
RankUp(r) == (r + 1) % NUM_RANKS
RankDown(r) == (r + NUM_RANKS - 1) % NUM_RANKS
FileRight(f) == (f + 1) % NUM_FILES
FileLeft(f) == (f + NUM_FILES - 1) % NUM_FILES

uup(sq) == make_square(RankUp(get_rank(sq)), get_file(sq))
udown(sq) == make_square(RankDown(get_rank(sq)), get_file(sq))
uright(sq) == make_square(get_rank(sq), FileRight(get_file(sq)))
uleft(sq) == make_square(get_rank(sq), FileLeft(get_file(sq)))
uforward(sq, c) == IF c = White THEN uup(sq) ELSE udown(sq)
ubackward(sq, c) == IF c = White THEN udown(sq) ELSE uup(sq)

to_my_backrank(c) == IF c = White THEN 0 ELSE 7
to_second_rank(c) == IF c = White THEN 1 ELSE 6
to_seventh_rank(c) == IF c = White THEN 6 ELSE 1

File == [A |-> 0, B |-> 1, C |-> 2, D |-> 3, E |-> 4, F |-> 5, G |-> 6, H |-> 7]

(***************************************************************************)
(* BitBoard operations.                                                    *)
(***************************************************************************)
Xor(a, b) == (a \ b) \cup (b \ a)
Compl(a) == Squares \ a
popcnt(bb) == Cardinality(bb)
from_square(sq) == {sq}
BitBoardSet(rank, file) == from_square(make_square(rank, file))

(* the index of the highest set bit, where trailing_zeros gives the lowest *)
highest_bit(bb) ==
    IF bb = EMPTY THEN NUM_SQUARES ELSE CHOOSE x \in bb : \A y \in bb : x >= y
trailing_zeros(bb) ==
    IF bb = EMPTY THEN NUM_SQUARES ELSE CHOOSE x \in bb : \A y \in bb : x <= y
to_square(bb) == SquareNew(trailing_zeros(bb))

Abs(x) == IF x < 0 THEN 0 - x ELSE x

(* impl Iterator for BitBoard: next(&mut self) -> Option<Square> *)
next(self) ==
    IF self = EMPTY THEN [item |-> {}, self |-> self]
    ELSE [item |-> {to_square(self)}, self |-> Xor(self, from_square(to_square(self)))]

(***************************************************************************)
(* The attack oracle's tables.                                             *)
(***************************************************************************)
RankBB(r) == {s \in Squares : get_rank(s) = r}
FileBB(f) == {s \in Squares : get_file(s) = f}
AdjacentFiles(f) == {s \in Squares : Abs(get_file(s) - f) = 1}

RAYS_ROOK == [src \in Squares |->
    {dest \in Squares : (get_rank(src) = get_rank(dest) \/ get_file(src) = get_file(dest))
                        /\ src # dest}]
RAYS_BISHOP == [src \in Squares |->
    {dest \in Squares : Abs(get_rank(src) - get_rank(dest)) = Abs(get_file(src) - get_file(dest))
                        /\ src # dest}]
get_rook_rays(sq) == RAYS_ROOK[sq]
get_bishop_rays(sq) == RAYS_BISHOP[sq]

get_knight_moves(src) ==
    {dest \in Squares :
        LET dr == Abs(get_rank(src) - get_rank(dest))
            df == Abs(get_file(src) - get_file(dest))
        IN  (dr = 2 /\ df = 1) \/ (dr = 1 /\ df = 2)}
get_king_moves(src) ==
    {dest \in Squares :
        LET dr == Abs(get_rank(src) - get_rank(dest))
            df == Abs(get_file(src) - get_file(dest))
        IN  dr <= 1 /\ df <= 1 /\ src # dest}

get_pawn_attacks(sq, c, blockers) ==
    {dest \in blockers :
        /\ Abs(get_file(sq) - get_file(dest)) = 1
        /\ get_rank(dest) = get_rank(sq) + (IF c = White THEN 1 ELSE 0 - 1)}

Sign(x) == IF x > 0 THEN 1 ELSE IF x < 0 THEN 0 - 1 ELSE 0
Collinear(a, b) == a # b /\ (b \in RAYS_ROOK[a] \/ b \in RAYS_BISHOP[a])
BETWEEN == [a \in Squares |-> [b \in Squares |->
    IF ~Collinear(a, b) THEN {}
    ELSE {s \in Squares :
            /\ s # a /\ s # b
            /\ Collinear(a, s)
            /\ Sign(get_rank(s) - get_rank(a)) = Sign(get_rank(b) - get_rank(a))
            /\ Sign(get_file(s) - get_file(a)) = Sign(get_file(b) - get_file(a))
            /\ Abs(get_rank(s) - get_rank(a)) <= Abs(get_rank(b) - get_rank(a))
            /\ Abs(get_file(s) - get_file(a)) <= Abs(get_file(b) - get_file(a))}]]
between(a, b) == BETWEEN[a][b]
LINE == [a \in Squares |-> [b \in Squares |->
    IF ~Collinear(a, b) THEN {}
    ELSE IF b \in RAYS_ROOK[a]
         THEN {s \in Squares : (get_rank(a) = get_rank(b) /\ get_rank(s) = get_rank(a))
                               \/ (get_file(a) = get_file(b) /\ get_file(s) = get_file(a))}
         ELSE {s \in Squares : s = a \/ (s \in RAYS_BISHOP[a] /\ (s = b \/ s \in RAYS_BISHOP[b]))}]]
line(a, b) == LINE[a][b]

(* sliding attacks: along each ray up to and including the first blocker *)
get_rook_moves(sq, blockers) == {t \in RAYS_ROOK[sq] : between(sq, t) \cap blockers = {}}
get_bishop_moves(sq, blockers) == {t \in RAYS_BISHOP[sq] : between(sq, t) \cap blockers = {}}

(* pawn pushes: one square if empty, two from the second rank if both are empty *)
get_pawn_quiets(sq, c, blockers) ==
    LET one == uforward(sq, c)
        two == uforward(one, c)
    IN  IF get_rank(sq) = to_my_backrank(Not(c)) \/ one \in blockers THEN {}
        ELSE IF get_rank(sq) = to_second_rank(c) /\ two \notin blockers THEN {one, two}
        ELSE {one}
get_pawn_moves(sq, c, blockers) ==
    Xor(get_pawn_attacks(sq, c, blockers), get_pawn_quiets(sq, c, blockers))

get_pawn_source_double_moves == RankBB(1) \cup RankBB(6)
get_pawn_dest_double_moves == RankBB(3) \cup RankBB(4)
get_castle_moves ==
    {make_square(r, f) : r \in {0, 7}, f \in {File.C, File.E, File.G}}
KINGSIDE_CASTLE_SQUARES == [c \in Colors |->
    {make_square(to_my_backrank(c), f) : f \in {File.F, File.G}}]
QUEENSIDE_CASTLE_SQUARES == [c \in Colors |->
    {make_square(to_my_backrank(c), f) : f \in {File.B, File.C, File.D}}]

(***************************************************************************)
(* Pieces.  into_index is the enum discriminant (`self as usize`).         *)
(***************************************************************************)
Pawn == "Pawn"
Knight == "Knight"
Bishop == "Bishop"
Rook == "Rook"
Queen == "Queen"
King == "King"
Pieces == {Pawn, Knight, Bishop, Rook, Queen, King}
PROMOTION_PIECES == <<Queen, Knight, Rook, Bishop>>

Discriminant(p) ==
    CASE p = Pawn -> 1
      [] p = Knight -> 2
      [] p = Bishop -> 3
      [] p = Rook -> 4
      [] p = Queen -> 5
      [] p = King -> 6

into_index(p) == Discriminant(p)

(* An unchecked access to a NUM_PIECES-entry table is in range for index i *)
InRange(i) == i < NUM_PIECES
(* the accesses a call makes for the pieces in ps leave the table *)
LeavesTable(ps) == \E p \in ps : ~InRange(into_index(p))

(***************************************************************************)
(* CastleRights: two bits, kingside = 1, queenside = 2.                    *)
(***************************************************************************)
NoRights == 0
KingSide == 1
QueenSide == 2
Both == 3

CASTLES_PER_SQUARE_mirrored(c, sq) ==
    IF get_rank(sq) # to_my_backrank(c) THEN 0
    ELSE CASE get_file(sq) = 0 -> 1
           [] get_file(sq) = 4 -> 3
           [] get_file(sq) = 7 -> 2
           [] OTHER -> 0
CASTLES_PER_SQUARE(c, sq) ==
    IF get_rank(sq) # to_my_backrank(c) THEN 0
    ELSE CASE get_file(sq) = 0 -> 2
           [] get_file(sq) = 4 -> 3
           [] get_file(sq) = 7 -> 1
           [] OTHER -> 0
square_to_castle_rights(c, sq) == CASTLES_PER_SQUARE(c, sq) % NUM_CASTLE_RIGHTS

has_kingside(cr) == cr % 2 = 1
has_queenside(cr) == (cr \div 2) % 2 = 1
BitsOf(cr) == (IF has_kingside(cr) THEN {1} ELSE {}) \cup (IF has_queenside(cr) THEN {2} ELSE {})
FromBits(bs) == (IF 1 \in bs THEN 1 ELSE 0) + (IF 2 \in bs THEN 2 ELSE 0)
CastleRemove(cr, remove) == FromBits(BitsOf(cr) \ BitsOf(remove))
CastleAdd(cr, add) == FromBits(BitsOf(cr) \cup BitsOf(add))
kingside_squares(c) == KINGSIDE_CASTLE_SQUARES[c]
queenside_squares(c) == QUEENSIDE_CASTLE_SQUARES[c]
unmoved_rooks(cr, c) ==
    CASE cr = NoRights -> EMPTY
      [] cr = KingSide -> BitBoardSet(to_my_backrank(c), File.H)
      [] cr = QueenSide -> BitBoardSet(to_my_backrank(c), File.A)
      [] cr = Both -> Xor(BitBoardSet(to_my_backrank(c), File.A),
                          BitBoardSet(to_my_backrank(c), File.H))

(***************************************************************************)
(* Zobrist keys.  A key is named by its table and its flat offset in the   *)
(* table, so an index past a row names the entry that follows the row.     *)
(***************************************************************************)
ZobristPiece(p, sq, c) ==
    {<<"piece", (ColorIndex(c) * NUM_PIECES + into_index(p)) * NUM_SQUARES + sq>>}
ZobristCastles(cr, c) == {<<"castles", ColorIndex(c) * NUM_CASTLE_RIGHTS + cr>>}
ZobristEnPassant(file, c) == {<<"ep", ColorIndex(c) * NUM_FILES + file>>}
ZobristColor(c) == IF Not(c) = White THEN {<<"side", 0>>} ELSE {}

(***************************************************************************)
(* Board.  pieces is an array of NUM_PIECES bitboards; in the struct it is *)
(* followed by color_combined, an array of NUM_COLORS bitboards.           *)
(***************************************************************************)
BoardNew ==
    [pieces |-> [i \in 0 .. (NUM_PIECES - 1) |-> EMPTY],
     color_combined |-> [i \in 0 .. (NUM_COLORS - 1) |-> EMPTY],
     combined |-> EMPTY,
     side_to_move |-> White,
     castle_rights |-> [i \in 0 .. (NUM_COLORS - 1) |-> NoRights],
     pinned |-> EMPTY,
     checkers |-> EMPTY,
     hash |-> {},
     en_passant |-> {}]

(* self.pieces.get_unchecked(i): past the array the access falls on the   *)
(* words that follow it, color_combined                                    *)
PiecesGet(b, i) ==
    IF InRange(i) THEN b.pieces[i] ELSE b.color_combined[(i - NUM_PIECES) % NUM_COLORS]
PiecesXor(b, i, bb) ==
    IF InRange(i) THEN [b EXCEPT !.pieces[i] = Xor(@, bb)]
    ELSE [b EXCEPT !.color_combined[(i - NUM_PIECES) % NUM_COLORS] = Xor(@, bb)]

pieces(b, p) == PiecesGet(b, into_index(p))
color_combined(b, c) == b.color_combined[ColorIndex(c)]
combined(b) == b.combined
pieces_with_color(b, p, c) == pieces(b, p) \cap color_combined(b, c)
king_square(b, c) == to_square(pieces_with_color(b, King, c))
castle_rights(b, c) == b.castle_rights[ColorIndex(c)]
my_castle_rights(b) == castle_rights(b, b.side_to_move)
their_castle_rights(b) == castle_rights(b, Not(b.side_to_move))
add_castle_rights(b, c, add) ==
    [b EXCEPT !.castle_rights[ColorIndex(c)] = CastleAdd(@, add)]
remove_castle_rights(b, c, remove) ==
    [b EXCEPT !.castle_rights[ColorIndex(c)] = CastleRemove(@, remove)]

xor(b, p, bb, c) ==
    LET b1 == PiecesXor(b, into_index(p), bb)
        b2 == [b1 EXCEPT !.color_combined[ColorIndex(c)] = Xor(@, bb)]
    IN  [b2 EXCEPT !.combined = Xor(@, bb),
                   !.hash = Xor(@, ZobristPiece(p, to_square(bb), c))]

piece_on_unchecked(b, sq) ==
    LET opp == from_square(sq)
    IN  IF Xor(Xor(pieces(b, Pawn), pieces(b, Knight)), pieces(b, Bishop)) \cap opp # EMPTY
        THEN IF pieces(b, Pawn) \cap opp # EMPTY THEN Pawn
             ELSE IF pieces(b, Knight) \cap opp # EMPTY THEN Knight
             ELSE Bishop
        ELSE IF pieces(b, Rook) \cap opp # EMPTY THEN Rook
        ELSE IF pieces(b, Queen) \cap opp # EMPTY THEN Queen
        ELSE King
(* Option<Piece> as a set of at most one piece *)
piece_on(b, sq) ==
    IF combined(b) \cap from_square(sq) = EMPTY THEN {} ELSE {piece_on_unchecked(b, sq)}
color_on(b, sq) ==
    IF color_combined(b, White) \cap from_square(sq) # EMPTY THEN {White}
    ELSE IF color_combined(b, Black) \cap from_square(sq) # EMPTY THEN {Black}
    ELSE {}

remove_ep_kept(b) == b
remove_ep(b) == [b EXCEPT !.en_passant = {}]
set_ep_always(b, sq) == [b EXCEPT !.en_passant = {sq}]
set_ep(b, sq) ==
    IF AdjacentFiles(get_file(sq)) \cap RankBB(get_rank(sq)) \cap pieces(b, Pawn)
         \cap color_combined(b, Not(b.side_to_move)) # EMPTY
    THEN [b EXCEPT !.en_passant = {sq}]
    ELSE b

update_pin_info(b) ==
    LET ksq == king_square(b, b.side_to_move)
        them == color_combined(b, Not(b.side_to_move))
        pinners == them \cap
            ((get_bishop_rays(ksq) \cap (pieces(b, Bishop) \cup pieces(b, Queen)))
             \cup (get_rook_rays(ksq) \cap (pieces(b, Rook) \cup pieces(b, Queen))))
        sliderCheckers == {sq \in pinners : between(sq, ksq) \cap combined(b) = EMPTY}
        pinnedBy == {sq \in pinners : popcnt(between(sq, ksq) \cap combined(b)) = 1}
        \* pinned ^= between for every pinner with one piece between: a square
        \* is left set when an odd number of pinners name it
        pinnedSq == {t \in Squares :
                        Cardinality({sq \in pinnedBy : t \in between(sq, ksq) \cap combined(b)}) % 2 = 1}
        c1 == sliderCheckers
        c2 == Xor(c1, get_knight_moves(ksq) \cap them \cap pieces(b, Knight))
        c3 == Xor(c2, get_pawn_attacks(ksq, b.side_to_move, them \cap pieces(b, Pawn)))
    IN  [b EXCEPT !.pinned = pinnedSq, !.checkers = c3]

(***************************************************************************)
(* Board::is_sane                                                          *)
(***************************************************************************)
(* the en-passant check of is_sane: the square holds a pawn of the side    *)
(* that is not to move                                                     *)
is_sane_ep(b) ==
    \A x \in b.en_passant :
        pieces(b, Pawn) \cap color_combined(b, Not(b.side_to_move)) \cap from_square(x) # EMPTY

is_sane(b) ==
    LET flipped == update_pin_info([b EXCEPT !.side_to_move = Not(b.side_to_move)])
        all == UNION {pieces(b, x) : x \in Pieces}
    IN  /\ \A x \in Pieces : \A y \in Pieces :
              (x # y) => (pieces(b, x) \cap pieces(b, y) = EMPTY)
        /\ color_combined(b, White) \cap color_combined(b, Black) = EMPTY
        /\ all = combined(b)
        /\ popcnt(pieces_with_color(b, King, White)) = 1
        /\ popcnt(pieces_with_color(b, King, Black)) = 1
        /\ is_sane_ep(b)
        /\ flipped.checkers = EMPTY
        /\ \A c \in Colors :
              /\ unmoved_rooks(castle_rights(b, c), c) \cap pieces(b, Rook) \cap color_combined(b, c)
                    = unmoved_rooks(castle_rights(b, c), c)
              /\ (castle_rights(b, c) # NoRights) =>
                    (pieces_with_color(b, King, c) = FileBB(File.E) \cap RankBB(to_my_backrank(c)))
        /\ get_king_moves(king_square(b, White)) \cap pieces(b, King) = EMPTY

(***************************************************************************)
(* Board::get_hash, and the hash of a position computed from scratch.      *)
(***************************************************************************)
get_hash(b) ==
    LET ep == UNION {ZobristEnPassant(get_file(e), Not(b.side_to_move)) : e \in b.en_passant}
    IN  Xor(Xor(Xor(Xor(b.hash, ep),
                    ZobristCastles(my_castle_rights(b), b.side_to_move)),
                ZobristCastles(their_castle_rights(b), Not(b.side_to_move))),
            ZobristColor(b.side_to_move))

(* Board::get_pawn_hash: the side key and a key per pawn, folded by XOR *)
get_pawn_hash(b) ==
    Xor(Xor(ZobristColor(b.side_to_move),
            UNION {ZobristPiece(Pawn, square, White) :
                      square \in pieces_with_color(b, Pawn, White)}),
        UNION {ZobristPiece(Pawn, square, White) : square \in pieces_with_color(b, Pawn, Black)})

(* Board::get_pawn_king_hash *)
get_pawn_king_hash(b) ==
    Xor(Xor(get_pawn_hash(b), ZobristPiece(King, king_square(b, White), White)),
        ZobristPiece(King, king_square(b, Black), Black))

(***************************************************************************)
(* TryFrom<&BoardBuilder> for Board.  A builder holds, per square, an      *)
(* optional (piece, colour), the side to move, the castle rights and an    *)
(* optional en-passant square.                                             *)
(***************************************************************************)
(* the loop over ALL_SQUARES calls xor once for each placed piece; every   *)
(* call flips one bit in each word it writes, so a bit ends up flipped     *)
(* when an odd number of the calls name it                                 *)
OddSquares(calls) == {sq \in Squares : Cardinality({t \in calls : t[1] = sq}) % 2 = 1}
XorAll(b, placed) ==
    LET inTable(i) == {t \in placed : into_index(t[2]) = i}
        pastTable(ci) ==
            {t \in placed : /\ ~InRange(into_index(t[2]))
                            /\ (into_index(t[2]) - NUM_PIECES) % NUM_COLORS = ci}
        ofColor(ci) == {t \in placed : ColorIndex(t[3]) = ci}
        keys == UNION {ZobristPiece(t[2], t[1], t[3]) : t \in placed}
        oddKeys ==
            {k \in keys :
                Cardinality({t \in placed : k \in ZobristPiece(t[2], t[1], t[3])}) % 2 = 1}
    IN  [b EXCEPT !.pieces = [i \in DOMAIN @ |-> Xor(@[i], OddSquares(inTable(i)))],
                  !.color_combined =
                      [ci \in DOMAIN @ |->
                          Xor(Xor(@[ci], OddSquares(pastTable(ci))), OddSquares(ofColor(ci)))],
                  !.combined = Xor(@, OddSquares(placed)),
                  !.hash = Xor(@, oddKeys)]

BuilderBoard(fen) ==
    LET b1 == XorAll(BoardNew, fen.placed)
        b2 == [b1 EXCEPT !.side_to_move = fen.side_to_move]
        b3 == IF fen.en_passant = {} THEN b2
              ELSE LET f == [b2 EXCEPT !.side_to_move = Not(b2.side_to_move)]
                       g == set_ep(f, CHOOSE e \in fen.en_passant : TRUE)
                   IN  [g EXCEPT !.side_to_move = Not(g.side_to_move)]
        b4 == add_castle_rights(b3, White, fen.castle_rights[1])
        b5 == add_castle_rights(b4, Black, fen.castle_rights[2])
    IN  update_pin_info(b5)
TryFromBuilder(fen) ==
    LET b == BuilderBoard(fen)
    IN  IF is_sane(b) THEN [tag |-> "Ok", board |-> b] ELSE [tag |-> "Err", board |-> b]
(* the pieces whose table entries finalization reads or writes *)
BuilderTouches(fen) == {t[2] : t \in fen.placed} \cup Pieces

(***************************************************************************)
(* Board::null_move: Option<Board>                                         *)
(***************************************************************************)
null_move(b) ==
    IF b.checkers # EMPTY THEN [tag |-> "None", board |-> b]
    ELSE [tag |-> "Some",
          board |-> update_pin_info(remove_ep([b EXCEPT !.side_to_move = Not(b.side_to_move)]))]
NullMoveTouches(b) == IF b.checkers # EMPTY THEN {} ELSE Pieces

(***************************************************************************)
(* Board::set_piece (the board-setup call kept for chess UIs)              *)
(***************************************************************************)
set_piece(b, p, c, sq) ==
    LET square_bb == from_square(sq)
        r1 == IF piece_on(b, sq) = {} THEN xor(b, p, square_bb, c)
              ELSE LET x == piece_on_unchecked(b, sq)
                       r0 == IF color_combined(b, White) \cap square_bb = square_bb
                             THEN xor(b, x, square_bb, White)
                             ELSE xor(b, x, square_bb, Black)
                   IN  xor(r0, p, square_bb, c)
        r2 == update_pin_info([r1 EXCEPT !.side_to_move = Not(r1.side_to_move)])
        r3 == update_pin_info([r2 EXCEPT !.side_to_move = Not(r2.side_to_move)])
    IN  IF r2.checkers # EMPTY THEN [tag |-> "None", board |-> b]
        ELSE [tag |-> "Some", board |-> r3]

(***************************************************************************)
(* ChessMove: source, dest, Option<Piece> (a set of at most one piece).    *)
(***************************************************************************)
ChessMove(source, dest, promotion) ==
    [source |-> source, dest |-> dest, promotion |-> promotion]

(***************************************************************************)
(* Board::make_move.  piece_on(source).unwrap() panics on an empty source. *)
(***************************************************************************)
CASTLE_ROOK_START(i) == IF i < 4 THEN File.A ELSE File.H
CASTLE_ROOK_END_corner(i) == IF i < 4 THEN File.A ELSE File.H
CASTLE_ROOK_END(i) == IF i < 4 THEN File.D ELSE File.F

make_move_sliders(result, ksq) ==
    LET attackers == color_combined(result, result.side_to_move) \cap
            ((get_bishop_rays(ksq) \cap (pieces(result, Bishop) \cup pieces(result, Queen)))
             \cup (get_rook_rays(ksq) \cap (pieces(result, Rook) \cup pieces(result, Queen))))
        chk == {sq \in attackers : between(sq, ksq) \cap combined(result) = EMPTY}
        pinnedBy == {sq \in attackers : popcnt(between(sq, ksq) \cap combined(result)) = 1}
        pinnedSq == {t \in Squares :
                        Cardinality({sq \in pinnedBy :
                                        t \in between(sq, ksq) \cap combined(result)}) % 2 = 1}
    IN  [result EXCEPT !.checkers = Xor(@, chk), !.pinned = Xor(@, pinnedSq)]

(* copy the position; clear en_passant, checkers and pinned *)
make_move_clear(self) == [remove_ep(self) EXCEPT !.checkers = EMPTY, !.pinned = EMPTY]

(* toggle the moved piece off its source and onto its destination *)
make_move_shift(self, m, result) ==
    xor(xor(result, piece_on_unchecked(self, m.source), from_square(m.source),
            self.side_to_move),
        piece_on_unchecked(self, m.source), from_square(m.dest), self.side_to_move)

(* toggle a captured piece off the destination *)
make_move_capture(self, m, result) ==
    IF piece_on(self, m.dest) = {} THEN result
    ELSE xor(result, piece_on_unchecked(self, m.dest), from_square(m.dest),
             Not(self.side_to_move))

(* remove_their_castle_rights, then remove_my_castle_rights *)
make_move_rights(self, m, result) ==
    remove_castle_rights(
        remove_castle_rights(result, Not(result.side_to_move),
                             square_to_castle_rights(Not(self.side_to_move), m.dest)),
        result.side_to_move,
        square_to_castle_rights(self.side_to_move, m.source))

(* opp_king.to_square() *)
make_move_ksq(result) ==
    to_square(pieces_with_color(result, King, Not(result.side_to_move)))

make_move_knight_check(result, m, ksq) ==
    [result EXCEPT !.checkers = Xor(@, get_knight_moves(ksq) \cap from_square(m.dest))]
make_move_pawn_check(result, m, ksq) ==
    [result EXCEPT !.checkers =
        Xor(@, get_pawn_attacks(ksq, Not(result.side_to_move), from_square(m.dest)))]

(* the en-passant capture: toggle the enemy pawn off the square behind the *)
(* destination                                                             *)
make_move_ep_skipped(self, m, result) == result
make_move_ep(self, m, result) ==
    xor(result, Pawn, from_square(ubackward(m.dest, self.side_to_move)), Not(self.side_to_move))

(* the branch on the moved piece: knight, pawn (promotion, double push,    *)
(* en-passant capture, other), castling king                               *)
make_move_piece(self, m, result, ksq) ==
    IF piece_on_unchecked(self, m.source) = Knight
    THEN make_move_knight_check(result, m, ksq)
    ELSE IF piece_on_unchecked(self, m.source) = Pawn
    THEN IF m.promotion = {Knight}
         THEN make_move_knight_check(
                  xor(xor(result, Pawn, from_square(m.dest), self.side_to_move),
                      Knight, from_square(m.dest), self.side_to_move), m, ksq)
         ELSE IF m.promotion # {}
         THEN xor(xor(result, Pawn, from_square(m.dest), self.side_to_move),
                  CHOOSE q \in m.promotion : TRUE, from_square(m.dest), self.side_to_move)
         ELSE IF from_square(m.source) \cap get_pawn_source_double_moves # EMPTY
                 /\ from_square(m.dest) \cap get_pawn_dest_double_moves # EMPTY
         THEN make_move_pawn_check(set_ep(result, m.dest), m, ksq)
         ELSE IF {ubackward(m.dest, self.side_to_move)} = self.en_passant
         THEN make_move_pawn_check(make_move_ep(self, m, result), m, ksq)
         ELSE make_move_pawn_check(result, m, ksq)
    ELSE IF piece_on_unchecked(self, m.source) = King
            /\ Xor(from_square(m.source), from_square(m.dest)) \cap get_castle_moves
                  = Xor(from_square(m.source), from_square(m.dest))
    THEN xor(xor(result, Rook,
                 BitBoardSet(to_my_backrank(self.side_to_move),
                             CASTLE_ROOK_START(get_file(m.dest))),
                 self.side_to_move),
             Rook,
             BitBoardSet(to_my_backrank(self.side_to_move), CASTLE_ROOK_END(get_file(m.dest))),
             self.side_to_move)
    ELSE result

make_move_check(self, m, result) ==
    make_move_sliders(make_move_piece(self, m, result, make_move_ksq(result)),
                      make_move_ksq(result))

make_move_flip(result) == [result EXCEPT !.side_to_move = Not(@)]

make_move_body(self, m) ==
    make_move_flip(
        make_move_check(self, m,
            make_move_rights(self, m,
                make_move_capture(self, m,
                    make_move_shift(self, m, make_move_clear(self))))))

make_move(self, m) ==
    IF piece_on(self, m.source) = {} THEN [tag |-> "panic", board |-> self]
    ELSE [tag |-> "Ok", board |-> make_move_body(self, m)]

(***************************************************************************)
(* The move generator.  A group is <<source, destinations, is_promotion>>  *)
(* (SquareAndBitBoard); a routine's result is the set of groups it pushes. *)
(***************************************************************************)
Group(src, moves, promo) == <<src, moves, promo>>

pseudo_legals(p, src, color, comb, unoccupied_by_me) ==
    CASE p = Pawn -> get_pawn_moves(src, color, comb) \cap unoccupied_by_me
      [] p = Knight -> get_knight_moves(src) \cap unoccupied_by_me
      [] p = Bishop -> get_bishop_moves(src, comb) \cap unoccupied_by_me
      [] p = Rook -> get_rook_moves(src, comb) \cap unoccupied_by_me
      [] p = Queen -> Xor(get_rook_moves(src, comb), get_bishop_moves(src, comb))
                        \cap unoccupied_by_me
      [] p = King -> get_king_moves(src) \cap unoccupied_by_me

check_mask(b, in_check) ==
    IF in_check
    THEN Xor(between(to_square(b.checkers), king_square(b, b.side_to_move)), b.checkers)
    ELSE Squares

(* PieceType::legals, the routine bishops, rooks and queens share *)
piece_legals(p, b, in_check, unoccupied_by_me) ==
    LET color == b.side_to_move
        ksq == king_square(b, color)
        mine == pieces(b, p) \cap color_combined(b, color)
        free == {Group(src, pseudo_legals(p, src, color, combined(b), unoccupied_by_me)
                              \cap check_mask(b, in_check), FALSE) : src \in mine \ b.pinned}
        pinned == IF in_check THEN {}
                  ELSE {Group(src, pseudo_legals(p, src, color, combined(b), unoccupied_by_me)
                                     \cap line(src, ksq), FALSE) : src \in mine \cap b.pinned}
    IN  {g \in free \cup pinned : g[2] # EMPTY}

knight_legals(b, in_check, unoccupied_by_me) ==
    LET color == b.side_to_move
        mine == pieces(b, Knight) \cap color_combined(b, color)
        mask == IF in_check THEN unoccupied_by_me \cap check_mask(b, TRUE)
                ELSE unoccupied_by_me
        free == {Group(src, pseudo_legals(Knight, src, color, combined(b), mask), FALSE) :
                    src \in mine \ b.pinned}
    IN  {g \in free : g[2] # EMPTY}

legal_ep_move_always(b, source, dest) == TRUE
legal_ep_move(b, source, dest) ==
    LET comb == Xor(Xor(Xor(combined(b), b.en_passant), from_square(source)), from_square(dest))
        ksq == king_square(b, b.side_to_move)
        them == color_combined(b, Not(b.side_to_move))
        rooks == (pieces(b, Rook) \cup pieces(b, Queen)) \cap them
        bishops == (pieces(b, Bishop) \cup pieces(b, Queen)) \cap them
    IN  /\ ~(get_rook_rays(ksq) \cap rooks # EMPTY /\ get_rook_moves(ksq, comb) \cap rooks # EMPTY)
        /\ ~(get_bishop_rays(ksq) \cap bishops # EMPTY
             /\ get_bishop_moves(ksq, comb) \cap bishops # EMPTY)

pawn_ep_legals(b) ==
    LET color == b.side_to_move
        mine == pieces(b, Pawn) \cap color_combined(b, color)
    IN  UNION {{Group(src, from_square(uforward(ep_sq, color)), FALSE) :
                  src \in {x \in RankBB(get_rank(ep_sq)) \cap AdjacentFiles(get_file(ep_sq)) \cap mine :
                              legal_ep_move(b, x, uforward(ep_sq, color))}} :
               ep_sq \in b.en_passant}

pawn_legals(b, in_check, unoccupied_by_me) ==
    LET color == b.side_to_move
        ksq == king_square(b, color)
        mine == pieces(b, Pawn) \cap color_combined(b, color)
        free == {Group(src, pseudo_legals(Pawn, src, color, combined(b), unoccupied_by_me)
                              \cap check_mask(b, in_check),
                       get_rank(src) = to_seventh_rank(color)) : src \in mine \ b.pinned}
        pinned == IF in_check THEN {}
                  ELSE {Group(src, pseudo_legals(Pawn, src, color, combined(b), unoccupied_by_me)
                                     \cap line(ksq, src),
                              get_rank(src) = to_seventh_rank(color)) : src \in mine \cap b.pinned}
    IN  {g \in free \cup pinned : g[2] # EMPTY} \cup pawn_ep_legals(b)

legal_king_move(b, dest) ==
    LET us == b.side_to_move
        them == color_combined(b, Not(us))
        comb == Xor(combined(b), pieces(b, King) \cap color_combined(b, us)) \cup from_square(dest)
        rooks == (pieces(b, Rook) \cup pieces(b, Queen)) \cap them
        bishops == (pieces(b, Bishop) \cup pieces(b, Queen)) \cap them
        attackers ==
            (get_rook_moves(dest, comb) \cap rooks)
            \cup (get_bishop_moves(dest, comb) \cap bishops)
            \cup (get_knight_moves(dest) \cap pieces(b, Knight) \cap them)
            \cup (get_king_moves(dest) \cap pieces(b, King) \cap them)
            \cup get_pawn_attacks(dest, us, pieces(b, Pawn) \cap them)
    IN  attackers = EMPTY

king_moves_set(b, in_check, unoccupied_by_me) ==
    LET color == b.side_to_move
        ksq == king_square(b, color)
        steps == {dest \in pseudo_legals(King, ksq, color, combined(b), unoccupied_by_me) :
                     legal_king_move(b, dest)}
        ks == IF ~in_check /\ has_kingside(my_castle_rights(b))
                 /\ combined(b) \cap kingside_squares(color) = EMPTY
                 /\ legal_king_move(b, uright(ksq))
                 /\ legal_king_move(b, uright(uright(ksq)))
              THEN from_square(uright(uright(ksq))) ELSE {}
        qs == IF ~in_check /\ has_queenside(my_castle_rights(b))
                 /\ combined(b) \cap queenside_squares(color) = EMPTY
                 /\ legal_king_move(b, uleft(ksq))
                 /\ legal_king_move(b, uleft(uleft(ksq)))
              THEN from_square(uleft(uleft(ksq))) ELSE {}
    IN  Xor(Xor(steps, ks), qs)

king_legals(b, in_check, unoccupied_by_me) ==
    LET moves == king_moves_set(b, in_check, unoccupied_by_me)
    IN  IF moves # EMPTY THEN {Group(king_square(b, b.side_to_move), moves, FALSE)} ELSE {}

(* T::legals::<IN_CHECK>(movelist, board, unoccupied_by_me) for the piece  *)
(* type T of piece p                                                       *)
legals(p, b, in_check, unoccupied_by_me) ==
    CASE p = Pawn -> pawn_legals(b, in_check, unoccupied_by_me)
      [] p = Knight -> knight_legals(b, in_check, unoccupied_by_me)
      [] p = King -> king_legals(b, in_check, unoccupied_by_me)
      [] OTHER -> piece_legals(p, b, in_check, unoccupied_by_me)

(* PieceType::has_legals, the routine bishops, rooks and queens share: true *)
(* at the first piece with a move left                                     *)
piece_has_legals(p, b, in_check, unoccupied_by_me) ==
    LET color == b.side_to_move
        ksq == king_square(b, color)
        mine == pieces(b, p) \cap color_combined(b, color)
    IN  \/ \E src \in mine \ b.pinned :
              pseudo_legals(p, src, color, combined(b), unoccupied_by_me)
                  \cap check_mask(b, in_check) # EMPTY
        \/ /\ ~in_check
           /\ \E src \in mine \cap b.pinned :
                 pseudo_legals(p, src, color, combined(b), unoccupied_by_me)
                     \cap line(src, ksq) # EMPTY

(* KnightType::has_legals *)
knight_has_legals(b, in_check, unoccupied_by_me) ==
    LET color == b.side_to_move
        mine == pieces(b, Knight) \cap color_combined(b, color)
        mask == IF in_check THEN unoccupied_by_me \cap check_mask(b, TRUE)
                ELSE unoccupied_by_me
    IN  \E src \in mine \ b.pinned :
            pseudo_legals(Knight, src, color, combined(b), mask) # EMPTY

(* PawnType::has_legals: free pawns, pinned pawns, en-passant captures *)
pawn_has_legals_pushes(b, in_check, unoccupied_by_me) ==
    LET color == b.side_to_move
        ksq == king_square(b, color)
        mine == pieces(b, Pawn) \cap color_combined(b, color)
    IN  \/ \E src \in mine \ b.pinned :
              pseudo_legals(Pawn, src, color, combined(b), unoccupied_by_me)
                  \cap check_mask(b, in_check) # EMPTY
        \/ /\ ~in_check
           /\ \E src \in mine \cap b.pinned :
                 pseudo_legals(Pawn, src, color, combined(b), unoccupied_by_me)
                     \cap line(ksq, src) # EMPTY
pawn_has_legals(b, in_check, unoccupied_by_me) ==
    LET color == b.side_to_move
        ksq == king_square(b, color)
        mine == pieces(b, Pawn) \cap color_combined(b, color)
    IN  \/ \E src \in mine \ b.pinned :
              pseudo_legals(Pawn, src, color, combined(b), unoccupied_by_me)
                  \cap check_mask(b, in_check) # EMPTY
        \/ /\ ~in_check
           /\ \E src \in mine \cap b.pinned :
                 pseudo_legals(Pawn, src, color, combined(b), unoccupied_by_me)
                     \cap line(ksq, src) # EMPTY
        \/ \E ep_sq \in b.en_passant :
              \E src \in RankBB(get_rank(ep_sq)) \cap AdjacentFiles(get_file(ep_sq)) \cap mine :
                  legal_ep_move(b, src, uforward(ep_sq, color))

(* KingType::has_legals: the steps and castling moves of KingType::legals  *)
king_has_legals(b, in_check, unoccupied_by_me) ==
    king_moves_set(b, in_check, unoccupied_by_me) # EMPTY

(* T::has_legals::<IN_CHECK>(board, unoccupied_by_me) for the piece type T *)
(* of piece p                                                              *)
type_has_legals(p, b, in_check, unoccupied_by_me) ==
    CASE p = Pawn -> pawn_has_legals(b, in_check, unoccupied_by_me)
      [] p = Knight -> knight_has_legals(b, in_check, unoccupied_by_me)
      [] p = King -> king_has_legals(b, in_check, unoccupied_by_me)
      [] OTHER -> piece_has_legals(p, b, in_check, unoccupied_by_me)

(* MoveGen::enumerate_moves: the dispatch on the number of checkers *)
MoveGen_enumerate_moves(b, mask) ==
    IF b.checkers = EMPTY
    THEN pawn_legals(b, FALSE, mask) \cup knight_legals(b, FALSE, mask)
         \cup piece_legals(Bishop, b, FALSE, mask) \cup piece_legals(Rook, b, FALSE, mask)
         \cup piece_legals(Queen, b, FALSE, mask) \cup king_legals(b, FALSE, mask)
    ELSE IF popcnt(b.checkers) = 1
    THEN pawn_legals(b, TRUE, mask) \cup knight_legals(b, TRUE, mask)
         \cup piece_legals(Bishop, b, TRUE, mask) \cup piece_legals(Rook, b, TRUE, mask)
         \cup piece_legals(Queen, b, TRUE, mask) \cup king_legals(b, TRUE, mask)
    ELSE king_legals(b, TRUE, mask)

(* the iterator: a promotion group yields one move per promotion piece *)
GroupMoves(g) ==
    IF g[3] THEN {ChessMove(g[1], d, {PROMOTION_PIECES[i]}) : d \in g[2], i \in 1 .. 4}
    ELSE {ChessMove(g[1], d, {}) : d \in g[2]}
new_legal(b) ==
    UNION {GroupMoves(g) : g \in MoveGen_enumerate_moves(b, Compl(color_combined(b, b.side_to_move)))}
legal(b, m) == m \in new_legal(b)
has_legals(b) == MoveGen_enumerate_moves(b, Compl(color_combined(b, b.side_to_move))) # {}

(* Board::status *)
status(b) ==
    IF ~has_legals(b)
    THEN IF b.checkers = EMPTY THEN "Stalemate" ELSE "Checkmate"
    ELSE "Ongoing"

(***************************************************************************)
(* The move codec: ChessMove::encode and ChessMove::decode (u16).          *)
(***************************************************************************)
Promotions == {{}} \cup {{p} : p \in Pieces}

encode(m) ==
    LET prom == IF m.promotion = {} THEN 0
                ELSE Discriminant(CHOOSE p \in m.promotion : TRUE) + 1
    IN  (m.source * 1024 + m.dest * 16 + prom) % 65536

decode(c) ==
    LET prom == c % 16
    IN  ChessMove(SquareNew((c \div 1024) % 64), SquareNew((c \div 16) % 64),
                  CASE prom = 1 -> {Pawn}
                    [] prom = 2 -> {Knight}
                    [] prom = 3 -> {Bishop}
                    [] prom = 4 -> {Rook}
                    [] prom = 5 -> {Queen}
                    [] prom = 6 -> {King}
                    [] OTHER -> {})

(***************************************************************************)
(* impl FromStr for ChessMove.  A &str is a sequence of characters; len()  *)
(* and get(a..b) count bytes, and get returns None unless a and b fall on  *)
(* character boundaries inside the string.  An Option is a set of at most  *)
(* one element.                                                            *)
(***************************************************************************)
FILE_CHARS == <<"a", "b", "c", "d", "e", "f", "g", "h">>
RANK_CHARS == <<"1", "2", "3", "4", "5", "6", "7", "8">>
IndexIn(chars, ch) == CHOOSE i \in 1 .. Len(chars) : chars[i] = ch
IsIn(chars, ch) == \E i \in 1 .. Len(chars) : chars[i] = ch

(* the UTF-8 width of a character; "U+00E9" names the two-byte letter *)
len_utf8(ch) == IF ch = "U+00E9" THEN 2 ELSE 1
RECURSIVE str_len(_)
str_len(s) == IF s = <<>> THEN 0 ELSE len_utf8(Head(s)) + str_len(Tail(s))
str_get(s, a, b) ==
    {SubSeq(s, i + 1, j) : i \in {x \in 0 .. Len(s) : str_len(SubSeq(s, 1, x)) = a},
                          j \in {y \in 0 .. Len(s) : str_len(SubSeq(s, 1, y)) = b /\ a <= b}}

(* Square::from_str: a file letter and a rank digit *)
SquareFromStr(t) ==
    IF Len(t) = 2 /\ IsIn(FILE_CHARS, t[1]) /\ IsIn(RANK_CHARS, t[2])
    THEN {make_square(IndexIn(RANK_CHARS, t[2]) - 1, IndexIn(FILE_CHARS, t[1]) - 1)}
    ELSE {}

Parsed(tag, m) == [tag |-> tag, move |-> m]

from_str_promo(s, source, dest) ==
    IF str_len(s) = 5
    THEN CASE s[Len(s)] = "q" -> Parsed("Ok", ChessMove(source, dest, {Queen}))
           [] s[Len(s)] = "r" -> Parsed("Ok", ChessMove(source, dest, {Rook}))
           [] s[Len(s)] = "n" -> Parsed("Ok", ChessMove(source, dest, {Knight}))
           [] s[Len(s)] = "b" -> Parsed("Ok", ChessMove(source, dest, {Bishop}))
           [] OTHER -> Parsed("Err", ChessMove(0, 0, {}))
    ELSE Parsed("Ok", ChessMove(source, dest, {}))

from_str(s) ==
    IF str_get(s, 0, 2) = {} \/ UNION {SquareFromStr(t) : t \in str_get(s, 0, 2)} = {}
       \/ str_get(s, 2, 4) = {} \/ UNION {SquareFromStr(t) : t \in str_get(s, 2, 4)} = {}
    THEN Parsed("Err", ChessMove(0, 0, {}))
    ELSE from_str_promo(s,
                        CHOOSE q \in UNION {SquareFromStr(t) : t \in str_get(s, 0, 2)} : TRUE,
                        CHOOSE q \in UNION {SquareFromStr(t) : t \in str_get(s, 2, 4)} : TRUE)

(***************************************************************************)
(* Builder contents: the FEN strings the source constructs boards from,    *)
(* and contents a BoardBuilder can be given through its setters.           *)
(***************************************************************************)
Fen(placed, stm, cw, cb, ep) ==
    [placed |-> placed, side_to_move |-> stm, castle_rights |-> <<cw, cb>>, en_passant |-> ep]

BackRank == <<Rook, Knight, Bishop, Queen, King, Bishop, Knight, Rook>>
StartPlaced ==
    {<<make_square(0, f), BackRank[f + 1], White>> : f \in 0 .. 7}
    \cup {<<make_square(1, f), Pawn, White>> : f \in 0 .. 7}
    \cup {<<make_square(6, f), Pawn, Black>> : f \in 0 .. 7}
    \cup {<<make_square(7, f), BackRank[f + 1], Black>> : f \in 0 .. 7}
(* rnbqkbnr/pppppppp/8/8/8/8/PPPPPPPP/RNBQKBNR w KQkq - *)
STARTPOS == Fen(StartPlaced, White, Both, Both, {})

(* rnbqkbnr/pppp2pp/8/4pP2/8/8/PPPP1PPP/RNBQKBNR w KQkq e6 *)
NullMoveEpPlaced ==
    (StartPlaced \ {<<make_square(1, File.E), Pawn, White>>,
                    <<make_square(6, File.E), Pawn, Black>>,
                    <<make_square(6, File.F), Pawn, Black>>})
    \cup {<<make_square(4, File.E), Pawn, Black>>, <<make_square(4, File.F), Pawn, White>>}
NULL_MOVE_START == Fen(NullMoveEpPlaced, White, Both, Both, {make_square(4, File.E)})
(* rnbqkbnr/pppp2pp/8/4pP2/8/8/PPPP1PPP/RNBQKBNR b KQkq - *)
NULL_MOVE_EXPECTED == Fen(NullMoveEpPlaced, Black, Both, Both, {})

(* 4k3/8/8/8/8/8/8/4K3 w - - *)
KINGS_ONLY ==
    Fen({<<make_square(0, File.E), King, White>>, <<make_square(7, File.E), King, Black>>},
        White, NoRights, NoRights, {})
(* a builder with no king, and one with two white kings *)
NO_KING == Fen({<<make_square(1, File.E), Pawn, White>>}, White, NoRights, NoRights, {})
TWO_KINGS ==
    Fen({<<make_square(0, File.E), King, White>>, <<make_square(0, File.G), King, White>>,
         <<make_square(7, File.E), King, Black>>}, White, NoRights, NoRights, {})

(* 4k3/8/3Pp3/8/8/8/8/4K3 w - -, with the builder's en-passant square set  *)
(* to e6: a black pawn that stands on the 6th rank                         *)
EP_WRONG_RANK ==
    Fen({<<make_square(0, File.E), King, White>>, <<make_square(7, File.E), King, Black>>,
         <<make_square(5, File.D), Pawn, White>>, <<make_square(5, File.E), Pawn, Black>>},
        White, NoRights, NoRights, {make_square(5, File.E)})
(* 4k3/p7/8/8/4P3/8/8/4K3 b - e3: no black pawn stands next to the pawn   *)
(* on e4                                                                   *)
EP_NO_CAPTURER ==
    Fen({<<make_square(0, File.E), King, White>>, <<make_square(7, File.E), King, Black>>,
         <<make_square(3, File.E), Pawn, White>>, <<make_square(6, File.A), Pawn, Black>>},
        Black, NoRights, NoRights, {make_square(3, File.E)})
(* 4k3/8/8/8/3pP3/8/8/4K3 b - e3: the black pawn on d4 can capture         *)
EP_WITH_CAPTURER ==
    Fen({<<make_square(0, File.E), King, White>>, <<make_square(7, File.E), King, Black>>,
         <<make_square(3, File.E), Pawn, White>>, <<make_square(3, File.D), Pawn, Black>>},
        Black, NoRights, NoRights, {make_square(3, File.E)})

BuilderInputs ==
    <<STARTPOS, NULL_MOVE_START, NULL_MOVE_EXPECTED, KINGS_ONLY, NO_KING, TWO_KINGS,
      EP_WRONG_RANK, EP_NO_CAPTURER, EP_WITH_CAPTURER>>

(* the pieces set_piece is called with *)
SetCandidates ==
    {<<King, White, make_square(0, File.E)>>, <<King, Black, make_square(7, File.E)>>,
     <<Knight, White, make_square(0, File.G)>>, <<Pawn, White, make_square(1, File.E)>>,
     <<Rook, Black, make_square(7, File.H)>>}

(***************************************************************************)
(* The state machine: a caller obtains a Board (Board::default(), the      *)
(* builder, or Board::new() followed by set_piece) and calls the           *)
(* generator, make_move_new, null_move and status on it.                   *)
(*                                                                         *)
(* An unchecked access past a table is undefined behaviour.  ub names the  *)
(* outcome of the build: "trap", the access aborts the process (the        *)
(* precondition check of get_unchecked, compiled in with debug             *)
(* assertions); "adjacent", the access falls on the words that follow the  *)
(* table (PiecesGet, PiecesXor, ZobristPiece).                             *)
(***************************************************************************)

oob == LeavesTable(touched)
Live == ret \notin {"abort", "panic"}
Traps(ps) == ub = "trap" /\ LeavesTable(ps)

(* update_pin_info, the generator and has_legals all read king_square *)
PinInfoTouches == {King, Bishop, Rook, Queen, Knight, Pawn}
SetPieceTouches(p) == {p} \cup PinInfoTouches
GeneratorTouches == Pieces

NoMove == ChessMove(0, 0, {})

Init ==
    /\ ub \in {"trap", "adjacent"}
    /\ board = BoardNew
    /\ held = FALSE
    /\ origin = "none"
    /\ op = "init"
    /\ ret = "none"
    /\ touched = {}
    /\ prev = BoardNew
    /\ arg = <<>>
    /\ ply = 0
    /\ nset = 0
    /\ mv = NoMove
    /\ coded = 0
    /\ decoded = NoMove
    /\ text = <<>>
    /\ parsed = NoMove
    /\ iter = EMPTY
    /\ items = <<>>
    /\ out = {}

(* the call stops the process: nothing is returned *)
Stops(how) ==
    /\ ret' = how
    /\ UNCHANGED <<board, held, origin, ply, nset>>

(* Board::default(): STARTPOS, from_str(...).expect(...) *)
Default ==
    /\ op = "init"
    /\ op' = "default"
    /\ arg' = <<"fen", 1>>
    /\ prev' = board
    /\ touched' = BuilderTouches(STARTPOS)
    /\ IF Traps(BuilderTouches(STARTPOS)) THEN Stops("abort")
       ELSE LET r == TryFromBuilder(STARTPOS)
            IN  IF r.tag = "Ok"
                THEN /\ ret' = "Ok"
                     /\ board' = r.board
                     /\ held' = TRUE
                     /\ origin' = "default"
                     /\ UNCHANGED <<ply, nset>>
                ELSE Stops("panic")
    /\ UNCHANGED <<ub, mv, coded, decoded, text, parsed, iter, items, out>>

(* Board::try_from(&builder) *)
FromBuilder(i) ==
    /\ op = "init"
    /\ op' = "try_from"
    /\ arg' = <<"fen", i>>
    /\ prev' = board
    /\ touched' = BuilderTouches(BuilderInputs[i])
    /\ IF Traps(BuilderTouches(BuilderInputs[i])) THEN Stops("abort")
       ELSE LET r == TryFromBuilder(BuilderInputs[i])
            IN  IF r.tag = "Ok"
                THEN /\ ret' = "Ok"
                     /\ board' = r.board
                     /\ held' = TRUE
                     /\ origin' = "builder"
                     /\ UNCHANGED <<ply, nset>>
                ELSE /\ ret' = "Err"
                     /\ UNCHANGED <<board, held, origin, ply, nset>>
    /\ UNCHANGED <<ub, mv, coded, decoded, text, parsed, iter, items, out>>

(* Board::new() *)
New ==
    /\ op = "init"
    /\ op' = "new"
    /\ arg' = <<>>
    /\ prev' = board
    /\ touched' = {}
    /\ ret' = "Ok"
    /\ board' = BoardNew
    /\ held' = TRUE
    /\ origin' = "new"
    /\ UNCHANGED <<ub, ply, nset, mv, coded, decoded, text, parsed, iter, items, out>>

(* board.set_piece(p, c, sq); the caller keeps the board it returns *)
SetPiece(p, c, sq) ==
    /\ held /\ Live /\ ply = 0 /\ nset < MaxSet
    /\ op' = "set_piece"
    /\ arg' = <<"piece", p, c, sq>>
    /\ prev' = board
    /\ touched' = SetPieceTouches(p)
    /\ IF Traps(SetPieceTouches(p)) THEN Stops("abort")
       ELSE LET r == set_piece(board, p, c, sq)
            IN  /\ ret' = r.tag
                /\ board' = r.board
                /\ nset' = nset + 1
                /\ UNCHANGED <<held, origin, ply>>
    /\ UNCHANGED <<ub, mv, coded, decoded, text, parsed, iter, items, out>>

(* MoveGen::new_legal(&board), then board.make_move_new(m) for one of the  *)
(* moves it emitted                                                        *)
MakeMove ==
    /\ held /\ Live /\ ply < MaxPly
    /\ op' = "make_move"
    /\ prev' = board
    /\ touched' = GeneratorTouches
    /\ IF Traps(GeneratorTouches) THEN arg' = <<>> /\ Stops("abort")
       ELSE \E m \in new_legal(board) :
                LET r == make_move(board, m)
                IN  /\ arg' = <<"move", m>>
                    /\ IF r.tag = "panic" THEN Stops("panic")
                       ELSE /\ ret' = "Ok"
                            /\ board' = r.board
                            /\ ply' = ply + 1
                            /\ UNCHANGED <<held, origin, nset>>
    /\ out' = {}
    /\ UNCHANGED <<ub, mv, coded, decoded, text, parsed, iter, items>>

(* board.null_move(); the caller keeps the board it returns *)
NullMove ==
    /\ held /\ Live /\ ply < MaxPly
    /\ op' = "null_move"
    /\ arg' = <<>>
    /\ prev' = board
    /\ touched' = NullMoveTouches(board)
    /\ IF Traps(NullMoveTouches(board)) THEN Stops("abort")
       ELSE LET r == null_move(board)
            IN  /\ ret' = r.tag
                /\ board' = r.board
                /\ ply' = ply + 1
                /\ UNCHANGED <<held, origin, nset>>
    /\ UNCHANGED <<ub, mv, coded, decoded, text, parsed, iter, items, out>>

(* board.status() *)
Status ==
    /\ held /\ Live /\ op # "status"
    /\ op' = "status"
    /\ arg' = <<>>
    /\ prev' = board
    /\ touched' = GeneratorTouches
    /\ IF Traps(GeneratorTouches) THEN Stops("abort")
       ELSE /\ ret' = status(board)
            /\ UNCHANGED <<board, held, origin, ply, nset>>
    /\ UNCHANGED <<ub, mv, coded, decoded, text, parsed, iter, items, out>>

Next ==
    \/ Default
    \/ \E i \in 1 .. Len(BuilderInputs) : FromBuilder(i)
    \/ New
    \/ \E t \in SetCandidates : SetPiece(t[1], t[2], t[3])
    \/ MakeMove
    \/ NullMove
    \/ Status

Spec == Init /\ [][Next]_vars

(***************************************************************************)
(* Positions set up by hand: Board::new(), then set_piece and              *)
(* add_castle_rights calls in the order listed.  The caller then plays     *)
(* generated moves and queries the position.                               *)
(***************************************************************************)
Place(p, c, rank, file) == <<"set_piece", p, c, make_square(rank, file)>>
Rights(c, cr) == <<"add_castle_rights", c, cr>>

Setups ==
    << \* pawns only: a double push beside an enemy pawn, and one that is not
       <<Place(Pawn, White, 1, File.A), Place(Pawn, White, 1, File.E),
         Place(Pawn, Black, 3, File.D)>>,
       \* the capturing pawn and the pushed pawn both leave the king's rank
       <<Place(King, Black, 3, File.A), Place(Pawn, Black, 3, File.D),
         Place(Pawn, White, 1, File.E), Place(Rook, White, 3, File.H)>>,
       \* the capturing pawn is pinned on the diagonal it captures along
       <<Place(King, Black, 4, File.C), Place(Pawn, Black, 3, File.D),
         Place(Pawn, White, 1, File.E), Place(Bishop, White, 0, File.G)>>,
       \* the double push gives check
       <<Place(King, Black, 4, File.F), Place(Pawn, Black, 3, File.D),
         Place(Pawn, White, 1, File.E)>>,
       \* a knight between its own rook and the enemy king
       <<Place(King, Black, 7, File.E), Place(Knight, White, 3, File.E),
         Place(Rook, White, 0, File.E)>>,
       \* rooks on their corners, with castle rights
       <<Place(King, White, 0, File.E), Place(King, Black, 7, File.E),
         Place(Rook, White, 0, File.A), Place(Rook, White, 0, File.H),
         Place(Rook, Black, 7, File.H),
         Rights(White, Both), Rights(Black, KingSide)>> >>

RECURSIVE SetupBoard(_, _)
SetupBoard(b, script) ==
    IF script = <<>> THEN b
    ELSE IF Head(script)[1] = "set_piece"
    THEN SetupBoard(set_piece(b, Head(script)[2], Head(script)[3], Head(script)[4]).board,
                    Tail(script))
    ELSE IF Head(script)[1] = "null_move"
    THEN SetupBoard(null_move(b).board, Tail(script))
    ELSE SetupBoard(add_castle_rights(b, Head(script)[2], Head(script)[3]), Tail(script))

(* the state after a setup: where the out-of-range access traps, the first *)
(* set_piece call ended the process                                        *)
InitSetup ==
    /\ ub \in {"trap", "adjacent"}
    /\ \E k \in 1 .. Len(Setups) :
          /\ arg = <<"setup", k>>
          /\ board = IF ub = "trap" THEN BoardNew ELSE SetupBoard(BoardNew, Setups[k])
    /\ ret = IF ub = "trap" THEN "abort" ELSE "Some"
    /\ held = TRUE
    /\ origin = "new"
    /\ op = "set_piece"
    /\ touched = SetPieceTouches(Pawn)
    /\ prev = BoardNew
    /\ ply = 0
    /\ nset = MaxSet
    /\ mv = NoMove
    /\ coded = 0
    /\ decoded = NoMove
    /\ text = <<>>
    /\ parsed = NoMove
    /\ iter = EMPTY
    /\ items = <<>>
    /\ out = {}

(* the destination masks a caller restricts generation to: captures only,  *)
(* and quiet moves only                                                    *)
Masks(b) == {color_combined(b, Not(b.side_to_move)), Compl(combined(b))}

(* T::legals::<IN_CHECK>(&mut movelist, &board, !my_pieces & mask) *)
Legals(p, in_check, mask) ==
    /\ held /\ Live /\ ply < MaxPly /\ op \in {"set_piece", "make_move"}
    /\ op' = "legals"
    /\ arg' = <<"legals", p, in_check, mask>>
    /\ prev' = board
    /\ touched' = GeneratorTouches
    /\ IF Traps(GeneratorTouches) THEN Stops("abort") /\ UNCHANGED out
       ELSE /\ ret' = "Ok"
            /\ out' = legals(p, board, in_check,
                             Compl(color_combined(board, board.side_to_move)) \cap mask)
            /\ UNCHANGED <<board, held, origin, ply, nset>>
    /\ UNCHANGED <<ub, mv, coded, decoded, text, parsed, iter, items>>

(* board.get_pawn_hash() *)
PawnHash ==
    /\ held /\ Live /\ ply < MaxPly /\ op \in {"set_piece", "make_move"}
    /\ op' = "get_pawn_hash"
    /\ arg' = <<>>
    /\ prev' = board
    /\ touched' = {Pawn}
    /\ IF Traps({Pawn}) THEN Stops("abort") /\ UNCHANGED out
       ELSE /\ ret' = "Ok"
            /\ out' = get_pawn_hash(board)
            /\ UNCHANGED <<board, held, origin, ply, nset>>
    /\ UNCHANGED <<ub, mv, coded, decoded, text, parsed, iter, items>>

(* board.get_pawn_king_hash() *)
PawnKingHash ==
    /\ held /\ Live /\ ply < MaxPly /\ op \in {"set_piece", "make_move"}
    /\ op' = "get_pawn_king_hash"
    /\ arg' = <<>>
    /\ prev' = board
    /\ touched' = {Pawn, King}
    /\ IF Traps({Pawn, King}) THEN Stops("abort") /\ UNCHANGED out
       ELSE /\ ret' = "Ok"
            /\ out' = get_pawn_king_hash(board)
            /\ UNCHANGED <<board, held, origin, ply, nset>>
    /\ UNCHANGED <<ub, mv, coded, decoded, text, parsed, iter, items>>

(* the builder inputs that carry an en-passant square *)
EpInputs == {i \in 1 .. Len(BuilderInputs) : BuilderInputs[i].en_passant # {}}

(* a caller that builds its position or sets it up, and plays moves *)
InitPositions == Init \/ InitSetup

NextSetup ==
    \/ \E i \in EpInputs : FromBuilder(i)
    \/ MakeMove

SpecSetup == InitPositions /\ [][NextSetup]_vars

(* a caller that sets its position up, plays moves and queries each        *)
(* position it reaches                                                     *)
NextQuery ==
    \/ MakeMove
    \/ \E p \in Pieces : \E in_check \in BOOLEAN : \E mask \in Masks(board) :
          Legals(p, in_check, mask)
    \/ PawnHash
    \/ PawnKingHash

SpecQuery == InitSetup /\ [][NextQuery]_vars

(***************************************************************************)
(* More positions set up by hand; a null_move step hands the move to       *)
(* Black.  The caller plays generated moves, null moves and king moves of  *)
(* its own choice (make_move_new does not test legality).                  *)
(***************************************************************************)
Studies ==
    << \* both kings and all four rooks at home, all rights
       <<Place(King, White, 0, File.E), Place(King, Black, 7, File.E),
         Place(Rook, White, 0, File.A), Place(Rook, White, 0, File.H),
         Place(Rook, Black, 7, File.A), Place(Rook, Black, 7, File.H),
         Rights(White, Both), Rights(Black, Both)>>,
       \* a black rook attacks a white rook
       <<Place(King, Black, 7, File.E), Place(King, White, 0, File.E),
         Place(Rook, White, 0, File.A), Place(Rook, Black, 7, File.A)>>,
       \* a white pawn about to promote
       <<Place(King, Black, 7, File.E), Place(King, White, 0, File.E),
         Place(Pawn, White, 6, File.A)>>,
       \* a white knight that can uncover the pawn behind it
       <<Place(King, Black, 7, File.E), Place(Rook, Black, 7, File.A),
         Place(King, White, 0, File.E), Place(Knight, White, 0, File.B),
         Place(Pawn, White, 1, File.A)>>,
       \* a black rook gives check on the e-file
       <<Place(King, Black, 7, File.E), Place(King, White, 0, File.E),
         Place(Knight, White, 0, File.B), Place(Rook, Black, 3, File.E)>>,
       \* three black pieces bear on a white pawn
       <<Place(King, Black, 7, File.E), Place(King, White, 0, File.E),
         Place(Pawn, White, 1, File.A), Place(Rook, Black, 7, File.A),
         Place(Bishop, Black, 7, File.G), Place(Knight, Black, 3, File.B)>>,
       \* Black to move, in check on the e-file, with a rook that can block
       <<Place(King, Black, 7, File.E), Place(Rook, Black, 4, File.A),
         <<"null_move">>, Place(Rook, White, 0, File.E)>> >>

Scripts == Setups \o Studies

InitStudy ==
    /\ ub \in {"trap", "adjacent"}
    /\ \E k \in 1 .. Len(Scripts) :
          /\ arg = <<"setup", k>>
          /\ board = IF ub = "trap" THEN BoardNew ELSE SetupBoard(BoardNew, Scripts[k])
    /\ ret = IF ub = "trap" THEN "abort" ELSE "Some"
    /\ held = TRUE
    /\ origin = "new"
    /\ op = "set_piece"
    /\ touched = SetPieceTouches(Pawn)
    /\ prev = BoardNew
    /\ ply = 0
    /\ nset = MaxSet
    /\ mv = NoMove
    /\ coded = 0
    /\ decoded = NoMove
    /\ text = <<>>
    /\ parsed = NoMove
    /\ iter = EMPTY
    /\ items = <<>>
    /\ out = {}

(* the king moves a player may choose from the e-file square of the own    *)
(* back rank: a step to a free neighbouring square, and castling to the    *)
(* g-file or c-file square while the right is held and the squares         *)
(* between king and rook are empty                                         *)
KingMovesFromHome(b) ==
    LET us == b.side_to_move
        home == make_square(to_my_backrank(us), File.E)
        steps == get_king_moves(home) \ combined(b)
        ks == IF has_kingside(my_castle_rights(b))
                 /\ combined(b) \cap kingside_squares(us) = EMPTY
              THEN {make_square(to_my_backrank(us), File.G)} ELSE {}
        qs == IF has_queenside(my_castle_rights(b))
                 /\ combined(b) \cap queenside_squares(us) = EMPTY
              THEN {make_square(to_my_backrank(us), File.C)} ELSE {}
    IN  IF piece_on(b, home) = {King} /\ (home \in color_combined(b, Black)) = (us = Black)
        THEN {ChessMove(home, d, {}) : d \in steps \cup ks \cup qs}
        ELSE {}

(* board.make_move_new(m) for a king move m the caller chose *)
MakeKingMove ==
    /\ held /\ Live /\ ply < MaxPly
    /\ op' = "make_move"
    /\ prev' = board
    /\ touched' = GeneratorTouches
    /\ IF Traps(GeneratorTouches) THEN arg' = <<>> /\ Stops("abort")
       ELSE \E m \in KingMovesFromHome(board) :
                LET r == make_move(board, m)
                IN  /\ arg' = <<"move", m>>
                    /\ IF r.tag = "panic" THEN Stops("panic")
                       ELSE /\ ret' = "Ok"
                            /\ board' = r.board
                            /\ ply' = ply + 1
                            /\ UNCHANGED <<held, origin, nset>>
    /\ out' = {}
    /\ UNCHANGED <<ub, mv, coded, decoded, text, parsed, iter, items>>

NextPlay ==
    \/ MakeMove
    \/ NullMove
    \/ MakeKingMove

SpecPlay == InitStudy /\ [][NextPlay]_vars

(* T::has_legals::<IN_CHECK>(&board, !my_pieces & mask) *)
HasLegals(p, in_check, mask) ==
    /\ held /\ Live /\ ply < MaxPly /\ op \in {"set_piece", "make_move"}
    /\ op' = "has_legals"
    /\ arg' = <<"has_legals", p, in_check, mask>>
    /\ prev' = board
    /\ touched' = GeneratorTouches
    /\ IF Traps(GeneratorTouches) THEN Stops("abort")
       ELSE /\ ret' = IF type_has_legals(p, board, in_check,
                                         Compl(color_combined(board, board.side_to_move)) \cap mask)
                      THEN "true" ELSE "false"
            /\ UNCHANGED <<board, held, origin, ply, nset>>
    /\ UNCHANGED <<ub, mv, coded, decoded, text, parsed, iter, items, out>>

NextFast ==
    \/ MakeMove
    \/ \E p \in Pieces : \E in_check \in BOOLEAN : \E mask \in Masks(board) :
          HasLegals(p, in_check, mask)

SpecFast == InitSetup /\ [][NextFast]_vars

(***************************************************************************)
(* The codec on its own: a move is chosen, encoded, and decoded.           *)
(***************************************************************************)
InitCodec ==
    /\ ub = "adjacent"
    /\ board = BoardNew
    /\ held = FALSE
    /\ origin = "none"
    /\ op = "init"
    /\ ret = "none"
    /\ touched = {}
    /\ prev = BoardNew
    /\ arg = <<>>
    /\ ply = 0
    /\ nset = 0
    /\ mv \in {ChessMove(s, d, p) : s \in Squares, d \in Squares, p \in Promotions}
    /\ coded = 0
    /\ decoded = NoMove
    /\ text = <<>>
    /\ parsed = NoMove
    /\ iter = EMPTY
    /\ items = <<>>
    /\ out = {}

Encode ==
    /\ op = "init"
    /\ op' = "encode"
    /\ coded' = encode(mv)
    /\ UNCHANGED <<ub, board, held, origin, ret, touched, prev, arg, ply, nset, mv, decoded,
                   text, parsed, iter, items, out>>

Decode ==
    /\ op = "encode"
    /\ op' = "decode"
    /\ decoded' = decode(coded)
    /\ UNCHANGED <<ub, board, held, origin, ret, touched, prev, arg, ply, nset, mv, coded,
                   text, parsed, iter, items, out>>

NextCodec == Encode \/ Decode

SpecCodec == InitCodec /\ [][NextCodec]_vars

(***************************************************************************)
(* The move parser on its own: a string is chosen and given to             *)
(* ChessMove::from_str.                                                    *)
(***************************************************************************)
Alphabet == {"b", "2", "q", "x", "U+00E9"}
Strings == UNION {[1 .. n -> Alphabet] : n \in 0 .. MaxStr}

InitParse ==
    /\ ub = "adjacent"
    /\ board = BoardNew
    /\ held = FALSE
    /\ origin = "none"
    /\ op = "init"
    /\ ret = "none"
    /\ touched = {}
    /\ prev = BoardNew
    /\ arg = <<>>
    /\ ply = 0
    /\ nset = 0
    /\ mv = NoMove
    /\ coded = 0
    /\ decoded = NoMove
    /\ text \in Strings
    /\ parsed = NoMove
    /\ iter = EMPTY
    /\ items = <<>>
    /\ out = {}

FromStr ==
    /\ op = "init"
    /\ op' = "from_str"
    /\ ret' = from_str(text).tag
    /\ parsed' = from_str(text).move
    /\ UNCHANGED <<ub, board, held, origin, touched, prev, arg, ply, nset, mv, coded, decoded,
                   text, iter, items, out>>

NextParse == FromStr

SpecParse == InitParse /\ [][NextParse]_vars

(***************************************************************************)
(* The BitBoard iterator on its own: a bitboard is chosen and next() is    *)
(* called on it until it returns None (a `for` loop over the bitboard).    *)
(***************************************************************************)
IterUniverse == {0, 1, 2, 7, 8, 31, 32, 62, 63}

InitIter ==
    /\ ub = "adjacent"
    /\ board = BoardNew
    /\ held = FALSE
    /\ origin = "none"
    /\ op = "init"
    /\ ret = "none"
    /\ touched = {}
    /\ prev = BoardNew
    /\ iter \in SUBSET IterUniverse
    /\ arg = <<"bitboard", iter>>
    /\ ply = 0
    /\ nset = 0
    /\ mv = NoMove
    /\ coded = 0
    /\ decoded = NoMove
    /\ text = <<>>
    /\ parsed = NoMove
    /\ items = <<>>
    /\ out = {}

IterNext ==
    /\ op \in {"init", "next"}
    /\ ret # "None"
    /\ op' = "next"
    /\ IF next(iter).item = {}
       THEN /\ ret' = "None"
            /\ UNCHANGED <<iter, items>>
       ELSE /\ ret' = "Some"
            /\ iter' = next(iter).self
            /\ items' = Append(items, CHOOSE sq \in next(iter).item : TRUE)
    /\ UNCHANGED <<ub, board, held, origin, touched, prev, arg, ply, nset, mv, coded, decoded,
                   text, parsed, out>>

NextIter == IterNext

SpecIter == InitIter /\ [][NextIter]_vars

(***************************************************************************)
(* Reference values the properties compare the program against.            *)
(***************************************************************************)
(* the 20 legal moves of the start position: 16 pawn moves, 4 knight moves *)
StartReference ==
    {ChessMove(make_square(1, f), make_square(2, f), {}) : f \in 0 .. 7}
    \cup {ChessMove(make_square(1, f), make_square(3, f), {}) : f \in 0 .. 7}
    \cup {ChessMove(make_square(0, 1), make_square(2, f), {}) : f \in {0, 2}}
    \cup {ChessMove(make_square(0, 6), make_square(2, f), {}) : f \in {5, 7}}

(* builder contents that are legal chess positions, none of them in check *)
LegalFens == {STARTPOS, NULL_MOVE_START, NULL_MOVE_EXPECTED, KINGS_ONLY}
GivenFen == BuilderInputs[arg[2]]
FromConstructor == origin \in {"default", "builder"}

(* the same placement and castle rights, the other side to move, no ep *)
NullMoved(fen) == [fen EXCEPT !.side_to_move = Not(@), !.en_passant = {}]

(* the hash from scratch: Zobrist::piece over every (piece, square,        *)
(* colour) on the board, then the ep, castle-rights and side keys          *)
OnBoard(b) ==
    {t \in Pieces \X Squares \X Colors :
        piece_on(b, t[2]) = {t[1]} /\ color_on(b, t[2]) = {t[3]}}
PieceKeys(b) ==
    LET all == UNION {ZobristPiece(t[1], t[2], t[3]) : t \in OnBoard(b)}
    IN  {k \in all :
            Cardinality({t \in OnBoard(b) : k \in ZobristPiece(t[1], t[2], t[3])}) % 2 = 1}
ScratchHash(b) == get_hash([b EXCEPT !.hash = PieceKeys(b)])

(* the en-passant invariant: the square holds a pawn of the side not to    *)
(* move, on the rank a double push of that side ends on (the 4th for a     *)
(* White pawn, the 5th for a Black pawn)                                   *)
EpWellPlaced(b) ==
    \A s \in b.en_passant :
        /\ piece_on(b, s) = {Pawn}
        /\ color_on(b, s) = {Not(b.side_to_move)}
        /\ get_rank(s) = (IF Not(b.side_to_move) = White THEN 3 ELSE 4)

(* the UCI move pattern [a-h][1-8][a-h][1-8][qrbn]? and the move it names  *)
MatchesUci(s) ==
    /\ Len(s) \in {4, 5}
    /\ IsIn(FILE_CHARS, s[1]) /\ IsIn(RANK_CHARS, s[2])
    /\ IsIn(FILE_CHARS, s[3]) /\ IsIn(RANK_CHARS, s[4])
    /\ (Len(s) = 5) => (s[5] \in {"q", "r", "b", "n"})
UciPromotion(s) ==
    IF Len(s) = 4 THEN {}
    ELSE CASE s[5] = "q" -> {Queen} [] s[5] = "r" -> {Rook}
           [] s[5] = "b" -> {Bishop} [] s[5] = "n" -> {Knight}
UciMove(s) ==
    ChessMove(8 * (IndexIn(RANK_CHARS, s[2]) - 1) + IndexIn(FILE_CHARS, s[1]) - 1,
              8 * (IndexIn(RANK_CHARS, s[4]) - 1) + IndexIn(FILE_CHARS, s[3]) - 1,
              UciPromotion(s))

(***************************************************************************)
(* Properties.                                                             *)
(***************************************************************************)

(* C1: Board::default() yields the start position, and in every position   *)
(* reached from it by generated moves the legal generator emits exactly    *)
(* the reference set; in the start position that set is the 20 moves of    *)
(* StartReference.                                                         *)
C1_GeneratorMatchesReference ==
    (op = "default") => (ret = "Ok" /\ held /\ new_legal(board) = StartReference)

(* C2: the builder accepts a legal position and the board it returns is    *)
(* sane; every board make_move_new returns for a generated move, starting  *)
(* from a constructed position, is sane as well.                           *)
C2_MakeMoveKeepsSane ==
    /\ (op = "try_from" /\ GivenFen \in LegalFens) => (ret = "Ok" /\ is_sane(board))
    /\ (op = "make_move" /\ FromConstructor) => (ret = "Ok" /\ is_sane(board))

C4_IncrementalHash ==
    /\ (op = "default") => ret = "Ok"
    /\ (op = "make_move" /\ FromConstructor) => ret = "Ok"
    /\ (op = "make_move" /\ ret = "Ok") => get_hash(board) = ScratchHash(board)

(* C5: status() returns Checkmate exactly when checkers is non-empty and   *)
(* the generator emits no move, Stalemate exactly when checkers is empty   *)
(* and it emits no move, Ongoing exactly when it emits a move.             *)
C5_Status ==
    (op = "status") =>
        /\ ret \in {"Checkmate", "Stalemate", "Ongoing"}
        /\ (ret = "Checkmate") <=> (prev.checkers # EMPTY /\ new_legal(prev) = {})
        /\ (ret = "Stalemate") <=> (prev.checkers = EMPTY /\ new_legal(prev) = {})
        /\ (ret = "Ongoing") <=> (new_legal(prev) # {})

(* C6: decode(encode(m)) = m for every source, destination and promotion   *)
(* in None, Some(Pawn) .. Some(King).                                      *)
C6_RoundTrip == (op = "decode") => (decoded = mv)

(* C7: into_index gives each piece a distinct value in 0..5, so every      *)
(* piece-indexed table access a call makes is in range.                    *)
C7_IndexInRange ==
    /\ \A p \in Pieces : \A q \in Pieces : (p # q) => (into_index(p) # into_index(q))
    /\ \A p \in touched : into_index(p) \in 0 .. (NUM_PIECES - 1)

(* C8: null_move() returns None exactly when the side to move is in check  *)
(* and Some otherwise; the board it was called on is left as it was.       *)
C8_NullMove ==
    (op = "null_move") =>
        /\ ret \in {"None", "Some"}
        /\ (ret = "None") <=> (prev.checkers # EMPTY)
        /\ (ret = "None") => (board = prev)

(* C9: the builder accepts a legal position P not in check, and            *)
(* null_move(P) equals in every field the board the builder constructs     *)
(* from P's placement and castle rights with the other side to move and    *)
(* no en-passant square.                                                   *)
C9_NullMoveEqualsBuilder ==
    (op = "try_from" /\ GivenFen \in LegalFens) =>
        /\ ret = "Ok"
        /\ TryFromBuilder(NullMoved(GivenFen)).tag = "Ok"
        /\ null_move(board).tag = "Some"
        /\ null_move(board).board = TryFromBuilder(NullMoved(GivenFen)).board

(* C10: finalizing a builder returns Ok exactly when the assembled board   *)
(* passes is_sane and Err otherwise; it never panics and never reads a     *)
(* table out of range.                                                     *)
C10_BuilderResult ==
    (op = "try_from") =>
        /\ ~oob
        /\ ret \in {"Ok", "Err"}
        /\ (ret = "Ok") <=> is_sane(BuilderBoard(GivenFen))

(* C11: is_sane enforces the en-passant invariant in full: a position the  *)
(* builder returns has its en-passant square on a pawn of the side not to  *)
(* move and on that pawn's double-push rank, and whenever the board a      *)
(* builder assembles breaks that invariant the en-passant check of is_sane *)
(* rejects it.                                                             *)
C11_EpInvariantEnforced ==
    (op = "try_from" /\ Live) =>
        /\ (ret = "Ok") => EpWellPlaced(board)
        /\ LET assembled == BuilderBoard(GivenFen)
           IN  is_sane_ep(assembled) => EpWellPlaced(assembled)

(* C16: ChessMove::from_str returns Ok exactly for the strings matching    *)
(* [a-h][1-8][a-h][1-8][qrbn]? (4 or 5 characters), with the source,       *)
(* destination and promotion the string names; every other string,         *)
(* including a 4-character move followed by two or more characters, gives  *)
(* an error value.                                                         *)
C16_FromStr ==
    (op = "from_str") =>
        /\ ret \in {"Ok", "Err"}
        /\ (ret = "Ok") <=> MatchesUci(text)
        /\ (ret = "Ok" /\ MatchesUci(text)) => (parsed = UciMove(text))

(* C17: iterating a bitboard yields each of its squares exactly once, in   *)
(* strictly ascending order; when next() returns None the bitboard is      *)
(* empty and the number of squares yielded equals popcnt() of the value    *)
(* iteration started from; an empty bitboard yields nothing.               *)
C17_Iteration ==
    (op = "next") =>
        /\ \A i \in 1 .. Len(items) : \A j \in 1 .. Len(items) : (i < j) => (items[i] < items[j])
        /\ {items[i] : i \in 1 .. Len(items)} \cup iter = arg[2]
        /\ {items[i] : i \in 1 .. Len(items)} \cap iter = {}
        /\ \A i \in 1 .. Len(items) : \A sq \in iter : items[i] < sq
        /\ (ret = "None") =>
              /\ iter = EMPTY
              /\ Len(items) = popcnt(arg[2])
              /\ (arg[2] = EMPTY) => (items = <<>>)

(* the loop over BitBoard(7) of the doctest has ended after three squares *)
C17_Witness ==
    op = "next" /\ ret = "None" /\ arg[2] = {0, 1, 2} /\ items = <<0, 1, 2>>

(* a pawn of the side to move stands next to s, on the rank of s *)
HasCapturer(b, s) ==
    \E t \in Squares :
        /\ get_rank(t) = get_rank(s)
        /\ Abs(get_file(t) - get_file(s)) = 1
        /\ piece_on(b, t) = {Pawn}
        /\ color_on(b, t) = {b.side_to_move}

(* m moves a pawn of b two ranks *)
IsDoublePush(b, m) ==
    /\ piece_on(b, m.source) = {Pawn}
    /\ get_file(m.source) = get_file(m.dest)
    /\ Abs(get_rank(m.source) - get_rank(m.dest)) = 2

(* C12: in a position produced by the builder or by make_move, an         *)
(* en-passant square s has a pawn of the side to move next to it on its    *)
(* rank; a double pawn push that no such pawn stands next to leaves         *)
(* en_passant empty.                                                       *)
C12_EpOnlyWithCapturer ==
    /\ (op = "make_move" /\ ret = "Ok") =>
          /\ \A pushed \in board.en_passant : HasCapturer(board, pushed)
          /\ (IsDoublePush(prev, arg[2]) /\ ~HasCapturer(board, arg[2].dest)) =>
                board.en_passant = {}
    /\ (op = "try_from" /\ Live) =>
          LET assembled == BuilderBoard(GivenFen)
          IN  /\ \A pushed \in assembled.en_passant : HasCapturer(assembled, pushed)
              /\ (~HasCapturer(assembled, CHOOSE given \in GivenFen.en_passant : TRUE)) =>
                    assembled.en_passant = {}

C12_Witness ==
    /\ op = "make_move" /\ ret = "Ok"
    /\ IsDoublePush(prev, arg[2])
    /\ board.en_passant = {arg[2].dest}

(* C13: in every position the caller holds, pinned contains only squares  *)
(* occupied by pieces of the side to move: pinned is a subset of           *)
(* color_combined[side_to_move].                                           *)
C13_PinnedAreMine ==
    (held /\ Live) => (board.pinned \subseteq color_combined(board, board.side_to_move))

(* castle rights as the set of sides a colour may still castle on *)
SidesOf(cr) ==
    CASE cr = NoRights -> {}
      [] cr = KingSide -> {"kingside"}
      [] cr = QueenSide -> {"queenside"}
      [] cr = Both -> {"kingside", "queenside"}

(* the sides colour c loses when a move starts from or lands on sq *)
SidesLostOn(c, sq) ==
    IF get_rank(sq) # (IF c = White THEN 0 ELSE NUM_RANKS - 1) THEN {}
    ELSE IF get_file(sq) = File.A THEN {"queenside"}
    ELSE IF get_file(sq) = File.H THEN {"kingside"}
    ELSE IF get_file(sq) = File.E THEN {"kingside", "queenside"}
    ELSE {}

(* C14: make_move takes from the mover the rights the square table gives  *)
(* for (mover, source) and from the opponent the rights it gives for       *)
(* (opponent, destination): queenside for the a-file corner, kingside for  *)
(* the h-file corner, both for the e-file square of that colour's back     *)
(* rank, nothing for any other square; no other right changes.             *)
C14_CastleRightsRule ==
    (op = "make_move" /\ ret = "Ok") =>
        LET mover == prev.side_to_move
        IN  /\ SidesOf(castle_rights(board, mover))
                  = SidesOf(castle_rights(prev, mover)) \ SidesLostOn(mover, arg[2].source)
            /\ SidesOf(castle_rights(board, Not(mover)))
                  = SidesOf(castle_rights(prev, Not(mover))) \ SidesLostOn(Not(mover), arg[2].dest)

C14_Witness ==
    /\ op = "make_move" /\ ret = "Ok"
    /\ castle_rights(prev, White) = Both /\ castle_rights(board, White) = QueenSide
    /\ castle_rights(prev, Black) = KingSide /\ castle_rights(board, Black) = NoRights

(* the (source, destination) pairs of a list of move groups *)
PairsOf(groups) == UNION {{<<grp[1], target>> : target \in grp[2]} : grp \in groups}

(* C15: generation restricted to a destination mask M                     *)
(* (unoccupied_by_me = !my_pieces & M) emits only moves whose destination  *)
(* is in M, castling and en-passant captures included, and emits exactly   *)
(* the unrestricted moves whose destination is in M.                       *)
C15_MaskedGeneration ==
    (op = "legals" /\ ret = "Ok") =>
        LET unrestricted ==
                PairsOf(legals(arg[2], board, arg[3],
                               Compl(color_combined(board, board.side_to_move))))
        IN  /\ \A emitted \in PairsOf(out) : emitted[2] \in arg[4]
            /\ PairsOf(out) = {free \in unrestricted : free[2] \in arg[4]}

(* the side-to-move key and, for every pawn, the key of (Pawn, its        *)
(* square, its own colour)                                                 *)
PawnKeys(b) ==
    Xor(ZobristColor(b.side_to_move),
        UNION {ZobristPiece(Pawn, where, CHOOSE side \in color_on(b, where) : TRUE) :
                  where \in {x \in Squares : piece_on(b, x) = {Pawn}}})

(* C18: get_pawn_hash() is the XOR of the side-to-move key and, for every *)
(* pawn, the piece key of (Pawn, its square, its own colour);              *)
(* get_pawn_king_hash() XORs in the two kings' keys under their own        *)
(* colours.                                                                *)
C18_PawnHashKeys ==
    /\ (op = "get_pawn_hash" /\ ret = "Ok") => (out = PawnKeys(board))
    /\ (op = "get_pawn_king_hash" /\ ret = "Ok") =>
          (out = Xor(Xor(PawnKeys(board),
                         ZobristPiece(King, king_square(board, White), White)),
                     ZobristPiece(King, king_square(board, Black), Black)))

(* the squares strictly between two squares of one rank, file or diagonal *)
Inside(a, z) ==
    {t \in Squares \ {a, z} :
        /\ (get_rank(t) - get_rank(a)) * (get_file(z) - get_file(a))
              = (get_file(t) - get_file(a)) * (get_rank(z) - get_rank(a))
        /\ Abs(get_rank(t) - get_rank(a)) + Abs(get_rank(z) - get_rank(t))
              = Abs(get_rank(z) - get_rank(a))
        /\ Abs(get_file(t) - get_file(a)) + Abs(get_file(z) - get_file(t))
              = Abs(get_file(z) - get_file(a))}

(* a piece of colour c and one of the kinds stands on sq *)
Stands(b, sq, c, kinds) == piece_on(b, sq) \subseteq kinds /\ piece_on(b, sq) # {} /\ color_on(b, sq) = {c}

(* with occupancy occ, an enemy rook or queen attacks the king of the     *)
(* side to move along a rank or file, or an enemy bishop or queen along a  *)
(* diagonal                                                                *)
KingAttacked(b, occ) ==
    LET kingAt == king_square(b, b.side_to_move)
        enemy == Not(b.side_to_move)
    IN  \E slider \in Squares \ {kingAt} :
            /\ Inside(slider, kingAt) \cap occ = {}
            /\ \/ /\ Stands(b, slider, enemy, {Rook, Queen})
                   /\ (get_rank(slider) = get_rank(kingAt) \/ get_file(slider) = get_file(kingAt))
               \/ /\ Stands(b, slider, enemy, {Bishop, Queen})
                   /\ Abs(get_rank(slider) - get_rank(kingAt))
                         = Abs(get_file(slider) - get_file(kingAt))

(* the square in front of sq, seen from colour c *)
Ahead(sq, c) == IF c = White THEN sq + NUM_FILES ELSE sq - NUM_FILES

Occupant(b, sq) == <<piece_on(b, sq), color_on(b, sq)>>

(* the move just made was a pawn move whose destination lies directly in  *)
(* front of the source position's en-passant square, seen from the mover   *)
PlayedEp ==
    /\ piece_on(prev, arg[2].source) = {Pawn}
    /\ prev.en_passant = {Ahead(arg[2].dest, Not(prev.side_to_move))}

(* C20: make_move treats a pawn move as an en-passant capture exactly     *)
(* when the square directly behind its destination, seen from the mover,   *)
(* is the source position's en_passant square; it then removes the enemy   *)
(* pawn from that square, and apart from that pawn and the capturing       *)
(* pawn's source and destination no square's occupant changes.  Every      *)
(* en-passant capture the generator emits is recognised this way.          *)
C20_EpCaptureMade ==
    (op = "make_move" /\ ret = "Ok" /\ piece_on(prev, arg[2].source) = {Pawn}) =>
        LET taken == Ahead(arg[2].dest, Not(prev.side_to_move))
        IN  /\ PlayedEp =>
                  /\ piece_on(board, taken) = {}
                  /\ \A other \in Squares \ {arg[2].source, arg[2].dest, taken} :
                        Occupant(board, other) = Occupant(prev, other)
            /\ (~PlayedEp) =>
                  \A other \in Squares \ {arg[2].source, arg[2].dest} :
                      Occupant(board, other) = Occupant(prev, other)
            /\ (<<arg[2].source, arg[2].dest>> \in PairsOf(pawn_ep_legals(prev))) => PlayedEp

C20_Witness ==
    /\ op = "make_move" /\ ret = "Ok"
    /\ <<arg[2].source, arg[2].dest>> \in PairsOf(pawn_ep_legals(prev))
    /\ PlayedEp
    /\ Occupant(prev, Ahead(arg[2].dest, Not(prev.side_to_move))) = <<{Pawn}, {board.side_to_move}>>
    /\ piece_on(board, Ahead(arg[2].dest, Not(prev.side_to_move))) = {}

(* a piece of colour c and one of the kinds stands on sq; the colour of an *)
(* occupied square is Black when Black's bitboard holds it and White when   *)
(* it does not                                                             *)
Holds(b, sq, c, kinds) ==
    /\ piece_on(b, sq) # {}
    /\ piece_on(b, sq) \subseteq kinds
    /\ (sq \in color_combined(b, Black)) <=> (c = Black)

(* the squares the kings of colour c stand on *)
KingOf(b, c) == {sq \in Squares : Holds(b, sq, c, {King})}

(* with occupancy occ, the piece of colour enemy on from attacks target: a *)
(* rook or queen along an open rank or file, a bishop or queen along an    *)
(* open diagonal, a knight a knight's jump away, a king on a neighbouring  *)
(* square, a pawn from one of the two squares it captures from             *)
Attacks(b, occ, from, target, enemy) ==
    LET dr == get_rank(from) - get_rank(target)
        df == get_file(from) - get_file(target)
    IN  /\ from # target
        /\ \/ /\ Holds(b, from, enemy, {Rook, Queen})
              /\ (dr = 0 \/ df = 0)
              /\ Inside(from, target) \cap occ = {}
           \/ /\ Holds(b, from, enemy, {Bishop, Queen})
              /\ Abs(dr) = Abs(df)
              /\ Inside(from, target) \cap occ = {}
           \/ /\ Holds(b, from, enemy, {Knight})
              /\ {Abs(dr), Abs(df)} = {1, 2}
           \/ /\ Holds(b, from, enemy, {King})
              /\ Abs(dr) <= 1 /\ Abs(df) <= 1
           \/ /\ Holds(b, from, enemy, {Pawn})
              /\ Abs(df) = 1
              /\ dr = (IF enemy = White THEN -1 ELSE 1)

AttackedBy(b, occ, target, enemy) ==
    \E from \in Squares : Attacks(b, occ, from, target, enemy)

(* the squares of the given files on the back rank of colour c *)
OnBackRank(c, files) ==
    {make_square(IF c = White THEN 0 ELSE NUM_RANKS - 1, f) : f \in files}

(* the king of the side to move stands on the e-file square of its back    *)
(* rank, the side holds the right, the squares of the files in between are *)
(* empty and the squares of the files in crossed are not attacked once the *)
(* king has left its square                                                *)
MayCastle(b, side, between_files, crossed) ==
    LET us == b.side_to_move
        home == CHOOSE sq \in OnBackRank(us, {File.E}) : TRUE
    IN  /\ home \in KingOf(b, us)
        /\ b.checkers = EMPTY
        /\ side \in SidesOf(my_castle_rights(b))
        /\ OnBackRank(us, between_files) \cap combined(b) = {}
        /\ \A sq \in OnBackRank(us, crossed) :
              ~AttackedBy(b, (combined(b) \ {home}) \cup {sq}, sq, Not(us))

(* C21: the king generator emits the castling move (king from the e-file   *)
(* square of its back rank to the g-file or c-file square) exactly when    *)
(* the side to move is not in check, holds the right of that side, the     *)
(* squares between king and rook are empty (f, g kingside; b, c, d         *)
(* queenside) and the two squares the king crosses and lands on are not    *)
(* attacked; the b-file square may be attacked.                            *)
C21_Castling ==
    (op = "legals" /\ ret = "Ok" /\ arg[2] = King /\ arg[3] = (board.checkers # EMPTY)) =>
        LET us == board.side_to_move
            home == CHOOSE sq \in OnBackRank(us, {File.E}) : TRUE
        IN  /\ (\E landing \in OnBackRank(us, {File.G}) : <<home, landing>> \in PairsOf(out))
                  <=> MayCastle(board, "kingside", {File.F, File.G}, {File.F, File.G})
            /\ (\E landing \in OnBackRank(us, {File.C}) : <<home, landing>> \in PairsOf(out))
                  <=> MayCastle(board, "queenside", {File.B, File.C, File.D}, {File.C, File.D})
            /\ \A emitted \in PairsOf(out) :
                  (Abs(get_file(emitted[1]) - get_file(emitted[2])) = 2) => emitted[1] = home

(* C23: a step of the own king to dest is accepted exactly when no enemy   *)
(* piece attacks dest in the occupancy with the king lifted off its square *)
(* and dest occupied; a piece captured on dest is no attacker, and enemy    *)
(* pawns, knights and an adjacent enemy king count as attackers.           *)
C23_LegalKingMove ==
    (op = "legals" /\ ret = "Ok" /\ arg[2] = King) =>
        LET us == board.side_to_move
        IN  \A kingAt \in KingOf(board, us) :
                \A dest \in Squares \ {kingAt} :
                    (/\ Abs(get_rank(dest) - get_rank(kingAt)) <= 1
                     /\ Abs(get_file(dest) - get_file(kingAt)) <= 1
                     /\ dest \in arg[4]
                     /\ ~(\E own \in Pieces : Holds(board, dest, us, {own}))) =>
                        ((<<kingAt, dest>> \in PairsOf(out))
                            <=> ~AttackedBy(board, (combined(board) \ {kingAt}) \cup {dest},
                                            dest, Not(us)))

(* the move just made took the king of the mover from the e-file square of *)
(* its back rank to the g-file or c-file square of that rank               *)
PlayedCastling ==
    /\ arg[2].source \in OnBackRank(prev.side_to_move, {File.E})
    /\ arg[2].dest \in OnBackRank(prev.side_to_move, {File.C, File.G})

(* C22: a castling move takes the mover's rook from the h-file corner to   *)
(* the f-file (kingside) or from the a-file corner to the d-file           *)
(* (queenside) of the same rank, puts the king on the destination, takes   *)
(* both castle rights from the mover and moves nothing else; a king move   *)
(* that is not castling changes no square besides its source and           *)
(* destination.                                                            *)
C22_CastlingMove ==
    (op = "make_move" /\ ret = "Ok" /\ arg[2].source \in KingOf(prev, prev.side_to_move)) =>
        LET us == prev.side_to_move
            kingside == get_file(arg[2].dest) = File.G
            corner == CHOOSE sq \in OnBackRank(us, {IF kingside THEN File.H ELSE File.A}) : TRUE
            beside == CHOOSE sq \in OnBackRank(us, {IF kingside THEN File.F ELSE File.D}) : TRUE
        IN  /\ PlayedCastling =>
                  /\ Holds(prev, corner, us, {Rook})
                  /\ piece_on(board, corner) = {}
                  /\ Holds(board, beside, us, {Rook})
                  /\ Holds(board, arg[2].dest, us, {King})
                  /\ piece_on(board, arg[2].source) = {}
                  /\ castle_rights(board, us) = NoRights
                  /\ \A other \in Squares \ {arg[2].source, arg[2].dest, corner, beside} :
                        Occupant(board, other) = Occupant(prev, other)
            /\ (~PlayedCastling) =>
                  /\ Holds(board, arg[2].dest, us, {King})
                  /\ \A other \in Squares \ {arg[2].source, arg[2].dest} :
                        Occupant(board, other) = Occupant(prev, other)

(* Black castles queenside: the rook from a8 stands on d8 *)
C22_Witness ==
    /\ op = "make_move" /\ ret = "Ok" /\ prev.side_to_move = Black
    /\ PlayedCastling
    /\ arg[2].source \in KingOf(prev, Black)
    /\ get_file(arg[2].dest) = File.C
    /\ Holds(prev, make_square(7, File.A), Black, {Rook})
    /\ Holds(board, make_square(7, File.D), Black, {Rook})
    /\ Holds(board, arg[2].dest, Black, {King})

(* the enemy pieces that attack the king of the side to move standing on   *)
(* kingAt                                                                  *)
Checking(b, kingAt) ==
    {from \in Squares : Attacks(b, combined(b), from, kingAt, Not(b.side_to_move))}

(* C24: when two pieces give check the generator emits only king moves;    *)
(* when one piece gives check every move emitted for a piece other than    *)
(* the king lands on the checker's square or strictly between the checker  *)
(* and the own king (an en-passant capture of the checking pawn is counted *)
(* as landing on the checker).                                             *)
C24_CheckEvasions ==
    (op = "make_move" /\ ret = "Ok" /\ legal(prev, arg[2])) =>
        \A kingAt \in KingOf(prev, prev.side_to_move) :
            /\ (Cardinality(Checking(prev, kingAt)) >= 2) => (arg[2].source = kingAt)
            /\ (Cardinality(Checking(prev, kingAt)) = 1 /\ arg[2].source # kingAt) =>
                  \E checker \in Checking(prev, kingAt) :
                      \/ arg[2].dest \in {checker} \cup Inside(checker, kingAt)
                      \/ PlayedEp /\ prev.en_passant = {checker}

(* C25: a generated move carries a promotion piece exactly when it moves a *)
(* pawn from the mover's seventh rank; for such a source and destination   *)
(* the moves generated are the four promoting to Queen, Knight, Rook and   *)
(* Bishop, the order of PROMOTION_PIECES; no en-passant group is flagged   *)
(* as a promotion.                                                         *)
C25_Promotions ==
    (op = "make_move" /\ ret = "Ok" /\ legal(prev, arg[2])) =>
        LET fromSeventh ==
                /\ piece_on(prev, arg[2].source) = {Pawn}
                /\ get_rank(arg[2].source) = to_seventh_rank(prev.side_to_move)
            alike == {other \in new_legal(prev) :
                         other.source = arg[2].source /\ other.dest = arg[2].dest}
        IN  /\ (arg[2].promotion # {}) <=> fromSeventh
            /\ fromSeventh =>
                  /\ PROMOTION_PIECES = <<Queen, Knight, Rook, Bishop>>
                  /\ {other.promotion : other \in alike} = {{Queen}, {Knight}, {Rook}, {Bishop}}
            /\ \A grp \in pawn_ep_legals(prev) : ~grp[3]

(* C26: for every piece type, both check modes and every destination mask  *)
(* has_legals answers true exactly when legals, called with the same        *)
(* arguments, pushes at least one group.                                   *)
C26_FastPathAgrees ==
    (op = "has_legals" /\ Live) =>
        /\ ret \in {"true", "false"}
        /\ (ret = "true") <=>
              (legals(arg[2], board, arg[3],
                      Compl(color_combined(board, board.side_to_move)) \cap arg[4]) # {})

(* the pawn routine answers true although only an en-passant capture is    *)
(* left: the destination mask excludes every other pawn move               *)
C26_Witness ==
    /\ op = "has_legals" /\ ret = "true" /\ arg[2] = Pawn
    /\ board.en_passant # {}
    /\ legals(Pawn, board, arg[3], Compl(color_combined(board, board.side_to_move)) \cap arg[4])
          = pawn_ep_legals(board)

(* C27: after a make_move the position has en_passant = Some(d) only if    *)
(* the move was a pawn double push to d, from the mover's second rank to   *)
(* its fourth; after any other move and after a null move en_passant is    *)
(* None, whatever it was before.                                           *)
C27_EpLivesOnePly ==
    /\ (op = "make_move" /\ ret = "Ok") =>
          \A target \in board.en_passant :
              /\ target = arg[2].dest
              /\ piece_on(prev, arg[2].source) = {Pawn}
              /\ get_file(arg[2].source) = get_file(target)
              /\ get_rank(arg[2].source) = to_second_rank(prev.side_to_move)
              /\ Ahead(Ahead(arg[2].source, prev.side_to_move), prev.side_to_move) = target
    /\ (op = "null_move" /\ ret = "Some") => (board.en_passant = {})

(* a move other than a double push is made from a position whose           *)
(* en-passant square is set, and the square is gone                        *)
C27_Witness ==
    /\ op = "make_move" /\ ret = "Ok"
    /\ prev.en_passant # {}
    /\ ~IsDoublePush(prev, arg[2])
    /\ board.en_passant = {}

(* each colour has one king and the side that is not to move is not in     *)
(* check                                                                   *)
OneKingEach(b) ==
    /\ \A c \in {White, Black} : Cardinality(KingOf(b, c)) = 1
    /\ \A kingAt \in KingOf(b, Not(b.side_to_move)) :
          ~AttackedBy(b, combined(b), kingAt, b.side_to_move)

(* C28: for a position P with one king each whose side to move is not in   *)
(* check, null_move(P) is a position that is not in check,                 *)
(* null_move(null_move(P)) is Some, and it equals P in every field except  *)
(* that its en-passant square is None.                                     *)
C28_NullMoveTwice ==
    (/\ op = "null_move" /\ Live
     /\ OneKingEach(prev)
     /\ \A kingAt \in KingOf(prev, prev.side_to_move) : Checking(prev, kingAt) = {}) =>
        /\ ret = "Some"
        /\ board.checkers = EMPTY
        /\ null_move(board).tag = "Some"
        /\ null_move(board).board = [prev EXCEPT !.en_passant = {}]

(* C29: in a position with one king each, set up and then reached by       *)
(* generated moves and null moves, checkers has at most two squares, each  *)
(* of them holds a piece of the side that is not to move, and it has       *)
(* exactly one square whenever a move of a piece other than the king is    *)
(* generated in check (the per-piece routines then use the single-checker  *)
(* check_mask).                                                            *)
C29_Checkers ==
    (held /\ Live /\ OneKingEach(board)) =>
        /\ Cardinality(board.checkers) <= 2
        /\ \A sq \in board.checkers :
              Holds(board, sq, Not(board.side_to_move), Pieces \ {King})
        /\ \A emitted \in new_legal(board) :
              (/\ board.checkers # EMPTY
               /\ emitted.source # king_square(board, board.side_to_move)) =>
                  Cardinality(board.checkers) = 1

(* colour c has its king on the e-file square of its back rank and, for    *)
(* every side it may still castle on, its rook on that side's corner       *)
RightsBacked(b, c) ==
    /\ (SidesOf(castle_rights(b, c)) # {}) => (KingOf(b, c) = OnBackRank(c, {File.E}))
    /\ ("kingside" \in SidesOf(castle_rights(b, c))) =>
          \A corner \in OnBackRank(c, {File.H}) : Holds(b, corner, c, {Rook})
    /\ ("queenside" \in SidesOf(castle_rights(b, c))) =>
          \A corner \in OnBackRank(c, {File.A}) : Holds(b, corner, c, {Rook})

(* C30: no make_move and no null_move gives a colour a castle right it did *)
(* not hold before; a colour that holds a right has its king on the e-file *)
(* square of its back rank and the matching rook on its corner, and the    *)
(* square the castling generator steps from (king_square) is that e-file   *)
(* square, so two steps to either side stay on the back rank.              *)
C30_CastleRights ==
    /\ (op \in {"make_move", "null_move"} /\ Live) =>
          \A c \in {White, Black} :
              SidesOf(castle_rights(board, c)) \subseteq SidesOf(castle_rights(prev, c))
    /\ (held /\ Live) =>
          \A c \in {White, Black} :
              /\ RightsBacked(board, c)
              /\ (SidesOf(castle_rights(board, c)) # {}) =>
                    ({king_square(board, c)} = OnBackRank(c, {File.E}))

====
